---- MODULE Spec2Model ----
(***************************************************************************)
(* Recommendation orchestration of the SimilarLinks app:                   *)
(*   RecommendationScreen.queryFn  (screens/RecommendationScreen.tsx)      *)
(*   getRecommendations            (services/api.ts)                       *)
(*   getRecommendationsFromGemini  (services/geminiService.ts)             *)
(*   cacheResult / getCachedResult (utils/storage.ts)                      *)
(* Spec: one query runs at a time: a step is the code between two awaits   *)
(* of a provider, cacheResult is one step, and the clock advances while a  *)
(* result or an error is on the screen. SpecLive adds the scheduling.      *)
(* SpecCache drives the cache alone, SpecRecent the recent list after      *)
(* earlier searches, and SpecConcurrent has several runs of queryFn in     *)
(* flight, a step being the code between two awaits. SpecStorage makes     *)
(* every call of storage.ts, SpecInput puts the ProductInputScreen         *)
(*   (screens/ProductInputScreen.tsx, utils/urlValidator.ts)               *)
(* in front of the query, and SpecSellers is one MultiSellerLinks          *)
(*   (components/MultiSellerLinks.tsx)                                     *)
(* component of a product card.                                            *)
(***************************************************************************)
EXTENDS Integers, Sequences, FiniteSets, TLC

\* ------------------------------------------------------------------ bounds
MaxTicks == 2          \* the clock advances at most this many times, by Tick
MaxRuns == 2           \* queryFn runs started by the user (mounts and refetches)
MaxAlts == 4           \* longest alternatives array a provider answers with
MaxFaultyRuns == 1     \* runs the user starts in which a provider or the storage fails
MaxPuts == 2           \* calls of cacheResult in a behaviour of the cache alone
MaxTasks == 2          \* runs of queryFn that are in flight at once
MaxStarts == 3         \* runs of queryFn the user starts while others may be in flight
MaxSearches == 3       \* calls of searchOtherPlatforms of one MultiSellerLinks component

\* ------------------------------------------------------- program constants
MAX_RECENT == 10
CACHE_TTL == 600000
maxRetries == 3
maxAccepted == 3
minAccepted == 2
queryRetry == 1

CACHE_KEY_PREFIX == "@decision_rec_cache:"
RECENT_URLS_KEY == "@decision_rec_recent"
GEMINI_API_KEYS == <<"primary-key", "backup-key">>

\* the clock advances by two thirds of the TTL: an entry that was written is
\* seen new, then aged but within the TTL, then expired
Tick == (2 * CACHE_TTL) \div 3

Urls == {"https://www.amazon.in/dp/B000TEST", "https://www.flipkart.com/item/p/itm1"}

\* the urls of MAX_RECENT searches made before, the last of them first
History ==
    <<"https://www.flipkart.com/item/p/h1", "https://www.flipkart.com/item/p/h2",
      "https://www.flipkart.com/item/p/h3", "https://www.flipkart.com/item/p/h4",
      "https://www.flipkart.com/item/p/h5", "https://www.flipkart.com/item/p/h6",
      "https://www.flipkart.com/item/p/h7", "https://www.flipkart.com/item/p/h8",
      "https://www.flipkart.com/item/p/h9", "https://www.flipkart.com/item/p/h10">>
Searched == {History[i] : i \in 1..MAX_RECENT}
ShareTexts == {"", "Check out this product"}

\* ----------------------------------------------------------- JS values
UNDEF == "undefined"
Null == [null |-> TRUE]

\* obj.k : a property that is not there reads as undefined
Get(o, k) == IF k \in DOMAIN o THEN o[k] ELSE UNDEF
\* the values JavaScript treats as false in  a || b  and  if (a)
Truthy(v) == v \notin {UNDEF, "", "null"}
Or(v, dflt) == IF Truthy(v) THEN v ELSE dflt

Min(a, b) == IF a < b THEN a ELSE b

\* ----------------------------------------------------------- text
\* a text is the sequence of its pieces: words, and the characters that are
\* no part of a word, each a piece of its own; " " is the space
RECURSIVE Concat(_)
Concat(text) == IF text = <<>> THEN "" ELSE Head(text) \o Concat(Tail(text))

RECURSIVE trimStart(_)
trimStart(text) == IF text # <<>> /\ Head(text) = " " THEN trimStart(Tail(text)) ELSE text
RECURSIVE trimEnd(_)
trimEnd(text) ==
    IF text # <<>> /\ text[Len(text)] = " " THEN trimEnd(SubSeq(text, 1, Len(text) - 1))
    ELSE text
trim(text) == trimEnd(trimStart(text))

\* text.replace(/\s+/g, ' ')
RECURSIVE squeeze(_)
squeeze(text) ==
    IF Len(text) < 2 THEN text
    ELSE IF text[1] = " " /\ text[2] = " " THEN squeeze(Tail(text))
    ELSE <<text[1]>> \o squeeze(Tail(text))

\* text.split(' '): the sequence of the texts between the spaces
RECURSIVE split(_)
split(text) ==
    IF text = <<>> THEN << <<>> >>
    ELSE LET rest == split(Tail(text))
         IN  IF Head(text) = " " THEN << <<>> >> \o rest
             ELSE << <<Head(text)>> \o Head(rest) >> \o Tail(rest)

\* words.join(' ')
RECURSIVE join(_)
join(words) ==
    IF words = <<>> THEN <<>>
    ELSE IF Len(words) = 1 THEN words[1]
    ELSE words[1] \o <<" ">> \o join(Tail(words))

\* encodeURIComponent: the characters of a word stay, the others are escaped
Escape(piece) ==
    CASE piece = " " -> "%20"
      [] piece = "/" -> "%2F"
      [] piece = "?" -> "%3F"
      [] piece = ":" -> "%3A"
      [] OTHER -> piece
encodeURIComponent(text) == [i \in 1..Len(text) |-> Escape(text[i])]

\* ----------------------------------------------------------- urlValidator.ts
\* what the user types or pastes into the url field: a shared text that ends
\* in a link, a link without its scheme, and the name of a product
UrlTexts ==
    {<<"Limited-time", " ", "deal", ":", " ", "boAt", " ", "Airdopes", " ",
       "https://www.amazon.in/dp/B000TEST">>,
     <<"www.flipkart.com/item/p/itm1">>,
     <<"Nike", " ", "Revolution", " ", "6">>}

\* what the user types into the product field
ProductTexts == {<<"Nike", " ", "Revolution", " ", "6">>, <<" ">>}

\* the patterns of extractUrlFromText, by the text each begins with, and
\* what may stand before and after that in a word of the inputs
Stems == <<"https://", "amazon.in/", "flipkart.com/", "amzn.in/", "www.">>
Leads == {"", "www.", "https://www."}
Rests ==
    {"www.amazon.in/dp/B000TEST", "www.flipkart.com/item/p/itm1", "dp/B000TEST",
     "item/p/itm1", "flipkart.com/item/p/itm1", "amazon.in/dp/B000TEST"}

\* cleanText.match(pattern)[0] within one word: from the stem to the end of
\* the word; "" when the word does not match
Match(stem, word) ==
    IF \E lead \in Leads, rest \in Rests : word = lead \o stem \o rest
    THEN stem \o (CHOOSE rest \in Rests : \E lead \in Leads : word = lead \o stem \o rest)
    ELSE ""

\* the words ('amazon.', 'flipkart.', 'amzn.') of the last test of
\* extractUrlFromText that the inputs hold outside a link
includesMarketplace(text) == \E i \in 1..Len(text) : text[i] \in {"amazon.in", "flipkart.com"}

startsWithScheme(url) ==
    \E rest \in Rests \cup {""} : url \in {"https://" \o rest, "http://" \o rest}

extractUrlFromText(text) ==
    IF trim(text) = <<>> THEN ""
    ELSE LET cleanText == squeeze(trim(text))
             Hit(i) == {j \in 1..Len(cleanText) : Match(Stems[i], cleanText[j]) # ""}
             matching == {i \in 1..Len(Stems) : Hit(i) # {}}
         IN  IF matching # {}
             THEN LET i == CHOOSE k \in matching : \A l \in matching : k <= l
                      j == CHOOSE k \in Hit(i) : \A l \in Hit(i) : k <= l
                      extractedUrl == Match(Stems[i], cleanText[j])
                  IN  IF startsWithScheme(extractedUrl) THEN extractedUrl
                      ELSE "https://" \o extractedUrl
             ELSE IF includesMarketplace(cleanText) /\ ~startsWithScheme(Concat(cleanText))
             THEN "https://" \o Concat(cleanText)
             ELSE Concat(cleanText)

\* the search url handleSubmit makes of the product text
SearchUrl(productText) ==
    "https://www.amazon.in/s?k=" \o Concat(encodeURIComponent(productText))
SearchUrls == {SearchUrl(text) : text \in ProductTexts}

\* AMAZON_PATTERN and FLIPKART_PATTERN: scheme, www. or not, host, /, anything
Hosts == {"amazon.in", "amazon.com", "amzn.in", "amzn.to", "flipkart.com"}
Paths ==
    {"dp/B000TEST", "item/p/itm1"}
    \cup {"s?k=" \o Concat(encodeURIComponent(text)) : text \in ProductTexts}

isValidProductUrl(url) ==
    /\ url # ""
    /\ \E scheme \in {"https://", "http://"}, www \in {"", "www."}, host \in Hosts,
          path \in Paths :
            url = scheme \o www \o host \o "/" \o path

\* the urls the input screen can hand to the RecommendationScreen
InputUrls ==
    {url \in {extractUrlFromText(text) : text \in UrlTexts} : isValidProductUrl(url)}
    \cup {SearchUrl(text) : text \in {t \in ProductTexts : trim(t) # <<>>}}

\* url.includes(word), for the references of the model
Includes(url, word) ==
    \/ word = "amazon" /\ url \in {"https://www.amazon.in/dp/B000TEST"} \cup SearchUrls
    \/ word = "flipkart"
        /\ url \in {"https://www.flipkart.com/item/p/itm1", "https://flipkart.com/item/p/itm1"}
                    \cup Searched

\* ----------------------------------------------------------- JSON
\* JSON.stringify leaves out the properties whose value is undefined
StripUndefined(o) == [k \in {f \in DOMAIN o : o[f] # UNDEF} |-> o[k]]

StringifyResponse(d) ==
    [d EXCEPT !.alternatives =
        [i \in 1..Len(d.alternatives) |-> StripUndefined(d.alternatives[i])]]

\* JSON.stringify(cacheEntry) and JSON.parse(cached) of a CachedResult
StringifyEntry(e) ==
    [json |-> [url |-> e.url, data |-> StringifyResponse(e.data), timestamp |-> e.timestamp]]
ParseEntry(s) == s.json

\* JSON.stringify / JSON.parse of the string[] of recent urls
StringifyList(l) == [json |-> l]
ParseList(s) == s.json

\* ----------------------------------------------------------- provider data
ProviderId == <<"p1", "p2", "p3", "p4", "p5", "p6", "p7", "p8">>
AltId == <<"alt1", "alt2", "alt3", "alt4", "alt5", "alt6", "alt7", "alt8">>
Count == <<"1", "2", "3", "4", "5", "6", "7", "8">>

\* the i-th entry of a provider's alternatives array; an incomplete entry
\* carries none of id, brand, title, source_url, rating_estimate
RawItem(i, complete, site) ==
    IF complete
    THEN [id |-> ProviderId[i], brand |-> "Brand", title |-> "Title",
          source_url |-> "https://www.amazon.in/dp/" \o ProviderId[i],
          source_site |-> site, rating_estimate |-> "4.0"]
    ELSE [source_site |-> site]

\* an alternatives array of n entries, the first one incomplete when bad
RawAlternatives(n, bad, site) == [i \in 1..n |-> RawItem(i, ~(bad /\ i = 1), site)]

\* the answers of the model: every length up to MaxAlts, one array with an
\* incomplete entry, and one array three entries longer than the fallback keeps
Shapes ==
    {<<n, FALSE>> : n \in 0..MaxAlts} \cup {<<minAccepted, TRUE>>, <<maxAccepted + 3, FALSE>>}

\* the body of a 2xx answer of POST /recommend, after response.json()
BackendData(url, n, bad) ==
    [source |-> IF Includes(url, "amazon") THEN "amazon" ELSE "flipkart",
     canonical_url |-> url,
     category |-> "earbuds",
     alternatives |-> RawAlternatives(n, bad, "amazon"),
     warnings |-> <<>>]

\* what fetchWithTimeout(BACKEND_URL/recommend) and response.json() can end in
PrimaryOutcomes(url) ==
    {[kind |-> k] : k \in {"timeout", "network", "http", "badjson", "shape"}}
    \cup {[kind |-> "ok", data |-> BackendData(url, sh[1], sh[2])] : sh \in Shapes}

\* the message of the error the try block of getRecommendations throws
PrimaryErrorMessage(o) ==
    CASE o.kind = "timeout" -> "Request timeout - backend is taking too long"
      [] o.kind = "network" -> "Network request failed"
      [] o.kind = "http" -> "Backend error: 503"
      [] o.kind = "badjson" -> "Backend returned invalid JSON: Unexpected token"
      [] o.kind = "shape" ->
            "Backend returned invalid JSON: Invalid response structure from backend"

\* response.ok, a body that parses, and data.alternatives an array
PrimaryAccepted(o) == o.kind = "ok"

\* ----------------------------------------------------------- Gemini
\* the JSON document the AI was asked for; an incomplete one has no category
GeminiData(n, bad) ==
    IF bad
    THEN [alternatives |-> RawAlternatives(n, TRUE, "flipkart")]
    ELSE [category |-> "earbuds", alternatives |-> RawAlternatives(n, FALSE, "amazon")]

\* a response text, by what each extraction strategy finds in it:
\* raw: JSON.parse of the whole text; fence: of the first ``` block;
\* brace: of the substring from the first { to the last }
TextForms ==
    {[raw |-> "good", fence |-> "none", brace |-> "good"],
     [raw |-> "bad", fence |-> "good", brace |-> "bad"],
     [raw |-> "bad", fence |-> "bad", brace |-> "good"],
     [raw |-> "bad", fence |-> "none", brace |-> "good"],
     [raw |-> "bad", fence |-> "none", brace |-> "bad"],
     [raw |-> "bad", fence |-> "none", brace |-> "none"]}

Parsed(d) == [ok |-> TRUE, data |-> d]
\* the SyntaxError of JSON.parse
SyntaxError == [ok |-> FALSE, message |-> "Unexpected token"]
NotExtracted == [ok |-> FALSE, message |-> "Could not extract JSON from response"]

extractJSON(text) ==
    IF text.form.raw = "good" THEN Parsed(text.data)
    ELSE IF text.form.fence # "none"
         THEN (IF text.form.fence = "good" THEN Parsed(text.data) ELSE SyntaxError)
    ELSE IF text.form.brace # "none"
         THEN (IF text.form.brace = "good" THEN Parsed(text.data) ELSE SyntaxError)
    ELSE NotExtracted

\* what model.generateContent(prompt) can end in
GeminiErrors ==
    {[kind |-> "error", message |-> m] :
        m \in {"[503 Service Unavailable] The model is overloaded",
               "[429 Too Many Requests] quota exceeded",
               "Network request failed"}}

\* every document as plain JSON, and every text form around the document of
\* maxAccepted alternatives
PlainJSON == [raw |-> "good", fence |-> "none", brace |-> "good"]

GeminiResponses ==
    {[kind |-> k] : k \in {"nocandidates", "safety", "notext", "empty"}}
    \cup {[kind |-> "text", form |-> PlainJSON, data |-> GeminiData(sh[1], sh[2])] :
            sh \in Shapes}
    \cup {[kind |-> "text", form |-> f, data |-> GeminiData(maxAccepted, FALSE)] :
            f \in TextForms}

is503(message) == message = "[503 Service Unavailable] The model is overloaded"
isQuotaError(message) == message = "[429 Too Many Requests] quota exceeded"

\* alternatives.map(...) of getRecommendationsFromGemini, index from 1
MapAlternative(alt, index, category) ==
    LET brand == Or(Get(alt, "brand"), "Unknown")
        sourceSite == Or(Get(alt, "source_site"), "amazon")
        query == category \o "%20" \o brand
        searchUrl ==
            IF sourceSite = "flipkart"
            THEN "https://www.flipkart.com/search?q=" \o query \o "&sort=relevance"
            ELSE "https://www.amazon.in/s?k=" \o query \o "&sort=relevance"
    IN  [id |-> Or(Get(alt, "id"), AltId[index]),
         brand |-> brand,
         title |-> Or(Get(alt, "title"), "Unknown Product"),
         rating_estimate |-> Get(alt, "rating_estimate"),
         source_url |-> searchUrl,
         source_site |-> sourceSite]

\* a variant: alternatives.slice(0, 2), which loses the third alternative
validAlternativesShort(alternatives) ==
    SubSeq(alternatives, 1, Min(maxAccepted - 1, Len(alternatives)))

\* alternatives.slice(0, 3)
validAlternatives(alternatives) == SubSeq(alternatives, 1, Min(maxAccepted, Len(alternatives)))

\* the RecommendationResponse getRecommendationsFromGemini builds from data
GeminiResult(url, data) ==
    LET category == Or(Get(data, "category"), "products")
        alternatives ==
            [i \in 1..Len(data.alternatives) |-> MapAlternative(data.alternatives[i], i, category)]
        valid == validAlternatives(alternatives)
    IN  [source |-> IF Includes(url, "amazon") THEN "amazon"
                    ELSE IF Includes(url, "flipkart") THEN "flipkart" ELSE "unknown",
         canonical_url |-> url,
         category |-> Or(Get(data, "category"), "Unknown Category"),
         alternatives |-> valid,
         warnings |-> IF Len(valid) < 3
                      THEN <<"Only " \o Count[Len(valid)] \o " alternatives found">>
                      ELSE <<>>]

\* what getRecommendationsFromGemini makes of a response of generateContent:
\* the result, or the message of the error it throws
Thrown(m) == [ok |-> FALSE, message |-> m]
Returned(r) == [ok |-> TRUE, data |-> r]

ProcessGeminiResponse(url, o) ==
    CASE o.kind = "nocandidates" ->
            Thrown("Gemini API: No response candidates returned (likely blocked by safety filter)")
      [] o.kind = "safety" -> Thrown("Gemini API: Response blocked by safety filter")
      [] o.kind = "notext" -> Thrown("Gemini API: Failed to extract text from response")
      [] o.kind = "empty" -> Thrown("Gemini API: Empty response received")
      [] o.kind = "text" ->
            LET parsed == extractJSON(o)
            IN  IF ~parsed.ok THEN Thrown(parsed.message)
                ELSE IF Len(parsed.data.alternatives) = 0
                     THEN Thrown("No alternatives found in AI response")
                ELSE Returned(GeminiResult(url, parsed.data))

\* a variant: the message of the other branch, for a geminiError that is no Error
BothFailedGeneric(geminiMessage) ==
    [message |-> "Failed to get recommendations from both backend and Gemini"]

\* the error getRecommendations throws when the fallback failed too
BothFailed(geminiMessage) ==
    [message |-> "Both backend and Gemini failed. Gemini error: " \o geminiMessage]

\* ----------------------------------------------------------- storage.ts
StorageKeys == {CACHE_KEY_PREFIX \o u : u \in Urls} \cup {RECENT_URLS_KEY}

\* a variant: the TTL taken in seconds against timestamps in milliseconds
getCachedResultSeconds(store, url, t, readOk) ==
    IF ~readOk THEN Null
    ELSE LET cached == store[CACHE_KEY_PREFIX \o url]
         IN  IF cached = Null THEN Null
             ELSE LET cacheEntry == ParseEntry(cached)
                  IN  IF t - cacheEntry.timestamp > CACHE_TTL \div 1000 THEN Null
                      ELSE cacheEntry.data

\* getCachedResult(url) at time t; readOk: AsyncStorage.getItem resolves
getCachedResult(store, url, t, readOk) ==
    IF ~readOk THEN Null
    ELSE LET cached == store[CACHE_KEY_PREFIX \o url]
         IN  IF cached = Null THEN Null
             ELSE LET cacheEntry == ParseEntry(cached)
                  IN  IF t - cacheEntry.timestamp > CACHE_TTL THEN Null
                      ELSE cacheEntry.data

\* a variant: every url written under the key of one url
cacheEntryWriteSharedKey(store, url, data, t) ==
    [store EXCEPT ![CACHE_KEY_PREFIX \o "https://www.amazon.in/dp/B000TEST"] =
        StringifyEntry([url |-> url, data |-> data, timestamp |-> t])]

\* the AsyncStorage.setItem of cacheResult(url, data) at time t
cacheEntryWrite(store, url, data, t) ==
    [store EXCEPT ![CACHE_KEY_PREFIX \o url] =
        StringifyEntry([url |-> url, data |-> data, timestamp |-> t])]

\* addToRecentUrls: the list read, and the list written back
recentOf(store) ==
    IF store[RECENT_URLS_KEY] = Null THEN <<>> ELSE ParseList(store[RECENT_URLS_KEY])

Filter(l, url) == SelectSeq(l, LAMBDA u : u # url)

\* a variant: the list is not cut to MAX_RECENT
updatedRecentUncut(recent, url) == <<url>> \o Filter(recent, url)

updatedRecent(recent, url) ==
    LET all == <<url>> \o Filter(recent, url)
    IN  SubSeq(all, 1, Min(MAX_RECENT, Len(all)))

\* a variant: the url pushed to the end of the list
addToRecentUrlsAppend(store, url, readOk, writeOk) ==
    IF readOk /\ writeOk
    THEN [store EXCEPT ![RECENT_URLS_KEY] =
            StringifyList(Filter(recentOf(store), url) \o <<url>>)]
    ELSE store

\* addToRecentUrls(url): getItem, filter, unshift, slice, setItem; a rejection
\* of either storage call is caught and logged
addToRecentUrls(store, url, readOk, writeOk) ==
    IF readOk /\ writeOk
    THEN [store EXCEPT ![RECENT_URLS_KEY] =
            StringifyList(updatedRecent(recentOf(store), url))]
    ELSE store

\* cacheResult(url, data) at time t: setItem of the entry, then
\* addToRecentUrls; a rejected setItem skips addToRecentUrls and is swallowed
cacheResult(store, url, data, t, writeOk, recentReadOk, recentWriteOk) ==
    IF writeOk
    THEN addToRecentUrls(cacheEntryWrite(store, url, data, t), url, recentReadOk, recentWriteOk)
    ELSE store

\* the parsed entry the store holds for the url, or Null
EntryOf(store, url) ==
    IF store[CACHE_KEY_PREFIX \o url] = Null THEN Null
    ELSE ParseEntry(store[CACHE_KEY_PREFIX \o url])

\* what follows the prefix in the keys AsyncStorage may hold
KeyTails ==
    {"", "recent"} \cup Urls \cup Searched \cup {"cache:" \o u : u \in Urls \cup Searched}

\* key.startsWith(prefix)
startsWith(key, prefix) == \E tail \in KeyTails : key = prefix \o tail

\* AsyncStorage.getAllKeys(): the keys that hold a value
getAllKeys(store) == {k \in DOMAIN store : store[k] # Null}

\* a variant: every key of the app is taken for a key of the cache
cacheKeysOfApp(store) == {key \in getAllKeys(store) : startsWith(key, "@decision_rec_")}

\* the keys clearAllCache hands to multiRemove
cacheKeys(store) == {key \in getAllKeys(store) : startsWith(key, CACHE_KEY_PREFIX)}

\* clearAllCache(): getAllKeys, filter, multiRemove; removed: the keys that
\* multiRemove removed, all of them unless it was rejected; a rejection of
\* either storage call is caught and logged
clearAllCache(store, keysOk, removed) ==
    IF keysOk THEN [k \in DOMAIN store |-> IF k \in removed THEN Null ELSE store[k]]
    ELSE store

\* getRecentUrls(): the list, or [] when getItem was rejected
getRecentUrls(store, readOk) == IF readOk THEN recentOf(store) ELSE <<>>

\* ----------------------------------------------------------- state
VARIABLES
    now,              \* Date.now()
    AsyncStorage,     \* storage key -> stored string, or Null
    currentKeyIndex,  \* geminiService.ts: index into GEMINI_API_KEYS, from 0
    pc,               \* where the query of the RecommendationScreen stands
    params,           \* route.params: url, shareText
    failureCount,     \* react-query: failed runs of queryFn so far
    outcome,          \* what the query handed to the screen: data or error
    result,           \* what getRecommendations returned, awaiting cacheResult
    thrown,           \* the error getRecommendations threw, awaiting useQuery
    attempt,          \* retryWithBackoff: the loop counter
    modelKeyIndex,    \* the key of the genAI instance the model object was made from
    inFlight,         \* the provider calls that have not completed
    error,            \* getRecommendations: what its catch block caught
    \* what happened so far, kept for the properties
    runs,             \* queryFn runs the user has started
    refetching,       \* the running queryFn was started by refetch()
    primaryCalls,     \* fetches of /recommend in this run of queryFn
    secondaryCalls,   \* calls of getRecommendationsFromGemini in this run
    generateCalls,    \* calls of model.generateContent in this call of the fallback
    lookup,           \* what the store held when queryFn consulted the cache
    storeAtStart,     \* AsyncStorage when this run of queryFn started
    faultyRuns,       \* runs the user started in which something failed
    faulty,           \* something failed in the run the user started last
    blocked,          \* the safety filter blocked the fallback for this request
    \* the cache driven alone
    puts,             \* calls of cacheResult so far
    lastCall,         \* url -> the last call of cacheResult(url, data), or Null
    lastStored,       \* url -> the last call whose entry write succeeded, or Null
    got,              \* the last call of getCachedResult and what it returned, or Null
    stamp,            \* url -> the number of the last call of cacheResult(url, _) that
                      \* wrote the entry, and of the last that wrote the recent list
    \* several runs of queryFn in flight
    tasks,            \* the runs of queryFn: where each stands, and its locals
    \* the ProductInputScreen
    input,            \* its state: url, shareText, productText, searchMode, recentUrls
    cachedFor,        \* url -> the share text of the request whose result is cached
    \* a MultiSellerLinks component
    props,            \* productName, productBrand, currentPlatform
    expanded,         \* useState(false)
    loading,          \* useState(false)
    sellers,          \* useState<SellerLink[]>([])
    searching,        \* calls of searchOtherPlatforms that wait for the backend
    made,             \* the lists getFallbackSearchLinks returned so far
    answered          \* how the call of the backend that ended last has ended

globals == <<now, AsyncStorage, currentKeyIndex>>
query == <<params, refetching, runs, blocked>>
loop == <<attempt, modelKeyIndex, generateCalls>>
calls == <<primaryCalls, secondaryCalls>>
faults == <<faultyRuns, faulty>>
component == <<props, expanded, loading, sellers, searching, made, answered>>
elsewhere == <<input, cachedFor, component>>
alone == <<puts, lastCall, lastStored, got, stamp, tasks, elsewhere>>
screen == <<currentKeyIndex, pc, params, failureCount, outcome, result, thrown, attempt,
            modelKeyIndex, inFlight, error, runs, refetching, primaryCalls, secondaryCalls,
            generateCalls, lookup, storeAtStart, faultyRuns, faulty, blocked>>

vars == <<now, AsyncStorage, currentKeyIndex, pc, params, failureCount, outcome, result,
          thrown, attempt, modelKeyIndex, inFlight, error, runs, refetching, primaryCalls,
          secondaryCalls, generateCalls, lookup, storeAtStart, faultyRuns, faulty, blocked,
          puts, lastCall, lastStored, got, stamp, tasks, input, cachedFor, props, expanded,
          loading, sellers, searching, made, answered>>

\* a step of the environment, which fails unless ok
Environment(ok) ==
    IF ok \/ faulty THEN UNCHANGED faults
    ELSE faultyRuns < MaxFaultyRuns /\ faultyRuns' = faultyRuns + 1 /\ faulty' = TRUE

\* the stamp of a url cacheResult was not called for
Never == 0 - (MAX_RECENT + 1)
NoStamp == [stored |-> Never, listed |-> Never]

\* a run of queryFn that was not started
Procs == 1..MaxTasks
FreeTask ==
    [pc |-> "free", role |-> "none", url |-> "", shareText |-> "", result |-> Null,
     thrown |-> Null, recent |-> <<>>, attempt |-> 0, failureCount |-> 0, calls |-> 0,
     faulty |-> FALSE]

\* the ProductInputScreen as it mounts, and no MultiSellerLinks on the screen
NoInput ==
    [url |-> "", shareText |-> "", productText |-> <<>>, searchMode |-> "url",
     recentUrls |-> <<>>]
NoProps == [productName |-> <<>>, productBrand |-> <<>>, currentPlatform |-> "amazon"]

Pending == [status |-> "pending"]
NotLooked == [state |-> "none"]
NoParams == [url |-> "", shareText |-> ""]

\* nothing has run: no screen, no call, the first key
NothingRun ==
    /\ now = 0
    /\ currentKeyIndex = 0
    /\ pc = "idle"
    /\ params = NoParams
    /\ failureCount = 0
    /\ outcome = Pending
    /\ result = Null
    /\ thrown = Null
    /\ attempt = 0
    /\ modelKeyIndex = 0
    /\ inFlight = {}
    /\ error = Null
    /\ runs = 0
    /\ refetching = FALSE
    /\ primaryCalls = 0
    /\ secondaryCalls = 0
    /\ generateCalls = 0
    /\ lookup = NotLooked
    /\ faultyRuns = 0
    /\ faulty = FALSE
    /\ blocked = FALSE
    /\ puts = 0
    /\ got = Null
    /\ tasks = [p \in Procs |-> FreeTask]
    /\ input = NoInput
    /\ props = NoProps
    /\ expanded = FALSE
    /\ loading = FALSE
    /\ sellers = <<>>
    /\ searching = 0
    /\ made = <<>>
    /\ answered = "none"

Init ==
    /\ AsyncStorage = [k \in StorageKeys |-> Null]
    /\ storeAtStart = [k \in StorageKeys |-> Null]
    /\ lastCall = [u \in Urls |-> Null]
    /\ lastStored = [u \in Urls |-> Null]
    /\ stamp = [u \in Urls |-> NoStamp]
    /\ cachedFor = [u \in Urls |-> Null]
    /\ NothingRun

\* a run of queryFn begins
StartQueryFn ==
    /\ pc' = "queryFn"
    /\ outcome' = Pending
    /\ result' = Null
    /\ thrown' = Null
    /\ error' = Null
    /\ primaryCalls' = 0
    /\ secondaryCalls' = 0
    /\ lookup' = NotLooked
    /\ storeAtStart' = AsyncStorage
    /\ UNCHANGED <<globals, loop, inFlight, faultyRuns, alone>>

\* ProductInputScreen: navigation.navigate('Recommendation', {url, shareText});
\* useQuery mounts and runs queryFn
Navigate(url, shareText) ==
    /\ pc = "idle"
    /\ runs < MaxRuns
    /\ params' = [url |-> url, shareText |-> shareText]
    /\ refetching' = FALSE
    /\ failureCount' = 0
    /\ runs' = runs + 1
    /\ faulty' = FALSE
    /\ blocked' = FALSE
    /\ StartQueryFn

\* Refresh Prices, pull to refresh, Retry: refetch() runs queryFn again
Refetch ==
    /\ pc = "done"
    /\ runs < MaxRuns
    /\ refetching' = TRUE
    /\ failureCount' = 0
    /\ runs' = runs + 1
    /\ faulty' = FALSE
    /\ blocked' = FALSE
    /\ UNCHANGED params
    /\ StartQueryFn

\* New Search: navigation.goBack() unmounts the screen and its query
GoBack ==
    /\ pc = "done"
    /\ pc' = "idle"
    /\ params' = NoParams
    /\ refetching' = FALSE
    /\ blocked' = FALSE
    /\ outcome' = Pending
    /\ primaryCalls' = 0
    /\ secondaryCalls' = 0
    /\ lookup' = NotLooked
    /\ UNCHANGED <<globals, loop, runs, failureCount, result, thrown, inFlight, error,
                   storeAtStart, faults, alone>>

\* getRecommendations: fetchWithTimeout(`${BACKEND_URL}/recommend`, ...) is sent
SendPrimary ==
    /\ pc' = "primary"
    /\ inFlight' = inFlight \cup {"primary"}
    /\ primaryCalls' = primaryCalls + 1

\* what queryFn found for the url: the data of the entry and its age, when there is one
Looked(state, store, url, t) ==
    LET entry == EntryOf(store, url)
    IN  IF entry = Null THEN [state |-> state, data |-> Null, age |-> 0]
        ELSE [state |-> state, data |-> entry.data, age |-> t - entry.timestamp]

\* queryFn up to its first await of the network: the shareText test, and
\* getCachedResult(url) when there is no shareText
QueryFn(readOk) ==
    /\ pc = "queryFn"
    /\ Environment(readOk)
    /\ IF Truthy(params.shareText)
       THEN /\ readOk
            /\ lookup' = Looked("skipped", AsyncStorage, params.url, now)
            /\ SendPrimary
            /\ UNCHANGED outcome
       ELSE LET cached == getCachedResult(AsyncStorage, params.url, now, readOk)
            IN  /\ lookup' = Looked(IF readOk THEN "read" ELSE "failed",
                                    AsyncStorage, params.url, now)
                /\ IF cached # Null
                   THEN /\ outcome' = [status |-> "data", data |-> cached]
                        /\ pc' = "done"
                        /\ UNCHANGED <<inFlight, primaryCalls>>
                   ELSE /\ SendPrimary
                        /\ UNCHANGED outcome
    /\ UNCHANGED <<globals, query, loop, failureCount, result, thrown, secondaryCalls,
                   error, storeAtStart, alone>>

\* a variant: the fallback started while the fetch of /recommend is pending
SendGenerateRacing ==
    /\ pc' = "gemini"
    /\ inFlight' = inFlight \cup {"secondary"}
    /\ generateCalls' = generateCalls + 1

\* retryWithBackoff calls fn(): model.generateContent(prompt) is sent
SendGenerate ==
    /\ pc' = "gemini"
    /\ inFlight' = (inFlight \ {"primary"}) \cup {"secondary"}
    /\ generateCalls' = generateCalls + 1

\* a variant: a non-2xx status thrown to the caller without the fallback
PrimaryEndsStatusThrown(o) ==
    /\ pc = "primary"
    /\ o \in PrimaryOutcomes(params.url)
    /\ Environment(PrimaryAccepted(o))
    /\ IF PrimaryAccepted(o)
       THEN /\ result' = o.data
            /\ pc' = "cacheResult"
            /\ inFlight' = inFlight \ {"primary"}
            /\ UNCHANGED <<secondaryCalls, loop, error, thrown>>
       ELSE IF o.kind = "http"
       THEN /\ thrown' = [message |-> PrimaryErrorMessage(o)]
            /\ pc' = "failed"
            /\ inFlight' = inFlight \ {"primary"}
            /\ UNCHANGED <<secondaryCalls, loop, error, result>>
       ELSE /\ error' = [message |-> PrimaryErrorMessage(o)]
            /\ secondaryCalls' = secondaryCalls + 1
            /\ modelKeyIndex' = currentKeyIndex
            /\ attempt' = 0
            /\ SendGenerate
            /\ UNCHANGED <<result, thrown>>
    /\ UNCHANGED <<globals, query, failureCount, outcome, primaryCalls, lookup,
                   storeAtStart, alone>>

\* the fetch of /recommend ends: the abort of the timeout, a rejection, or a
\* response; getRecommendations returns the data or falls back to Gemini
PrimaryEnds(o) ==
    /\ pc = "primary"
    /\ o \in PrimaryOutcomes(params.url)
    /\ Environment(PrimaryAccepted(o))
    /\ IF PrimaryAccepted(o)
       THEN /\ result' = o.data
            /\ pc' = "cacheResult"
            /\ inFlight' = inFlight \ {"primary"}
            /\ UNCHANGED <<secondaryCalls, loop, error>>
       ELSE /\ error' = [message |-> PrimaryErrorMessage(o)]
            /\ secondaryCalls' = secondaryCalls + 1
            /\ modelKeyIndex' = currentKeyIndex
            /\ attempt' = 0
            /\ SendGenerate
            /\ UNCHANGED result
    /\ UNCHANGED <<globals, query, failureCount, outcome, thrown, primaryCalls, lookup,
                   storeAtStart, alone>>

\* retryWithBackoff is left: its locals are gone
LeaveLoop ==
    /\ inFlight' = inFlight \ {"secondary"}
    /\ attempt' = 0
    /\ modelKeyIndex' = 0
    /\ generateCalls' = 0

\* getRecommendationsFromGemini throws; getRecommendations wraps the message
\* of geminiError and throws, and what it caught before is gone
GeminiThrows(message) ==
    /\ thrown' = BothFailed(message)
    /\ error' = Null
    /\ pc' = "failed"
    /\ LeaveLoop

\* generateContent rejects: the catch block of retryWithBackoff
GenerateFails(o) ==
    /\ pc = "gemini"
    /\ o \in GeminiErrors
    /\ Environment(FALSE)
    /\ LET isLastAttempt == attempt = maxRetries - 1
       IN  IF isQuotaError(o.message) /\ currentKeyIndex < Len(GEMINI_API_KEYS) - 1
           THEN /\ currentKeyIndex' = currentKeyIndex + 1
                /\ IF attempt + 1 < maxRetries
                   THEN /\ attempt' = attempt + 1
                        /\ SendGenerate
                        /\ UNCHANGED <<thrown, modelKeyIndex, error>>
                   ELSE GeminiThrows("Max retries reached")
           ELSE IF ~is503(o.message) \/ isLastAttempt
           THEN /\ GeminiThrows(o.message)
                /\ UNCHANGED currentKeyIndex
           ELSE /\ pc' = "backoff"
                /\ inFlight' = inFlight \ {"secondary"}
                /\ UNCHANGED <<currentKeyIndex, loop, thrown, error>>
    /\ UNCHANGED <<now, AsyncStorage, query, failureCount, outcome, result, calls,
                   lookup, storeAtStart, alone>>

\* the delay of retryWithBackoff is over: the next round of the loop
BackoffOver ==
    /\ pc = "backoff"
    /\ attempt' = attempt + 1
    /\ SendGenerate
    /\ UNCHANGED <<globals, query, failureCount, outcome, result, thrown, modelKeyIndex,
                   calls, error, lookup, storeAtStart, faults, alone>>

\* the response has no candidate, or its first candidate has finishReason SAFETY
SafetyBlocked(o) == o.kind \in {"nocandidates", "safety"}

\* generateContent resolves: the rest of getRecommendationsFromGemini
GenerateResponds(o) ==
    /\ pc = "gemini"
    /\ o \in GeminiResponses
    /\ blocked' = (blocked \/ SafetyBlocked(o))
    /\ LET r == ProcessGeminiResponse(params.url, o)
       IN  /\ Environment(r.ok)
           /\ IF r.ok
              THEN /\ result' = r.data
                   /\ pc' = "cacheResult"
                   /\ LeaveLoop
                   /\ UNCHANGED <<thrown, error>>
              ELSE /\ GeminiThrows(r.message)
                   /\ UNCHANGED result
    /\ UNCHANGED <<globals, params, refetching, runs, failureCount, outcome, calls, lookup,
                   storeAtStart, alone>>

\* queryFn: await cacheResult(url, result)
StoreResult(writeOk, recentReadOk, recentWriteOk) ==
    /\ pc = "cacheResult"
    /\ Environment(writeOk /\ recentReadOk /\ recentWriteOk)
    /\ AsyncStorage' = cacheResult(AsyncStorage, params.url, result, now,
                                   writeOk, recentReadOk, recentWriteOk)
    /\ pc' = "return"
    /\ UNCHANGED <<now, currentKeyIndex, query, loop, failureCount, outcome, result, thrown,
                   inFlight, calls, error, lookup, storeAtStart, puts, lastCall, lastStored,
                   got, stamp, tasks, input, component>>

CacheResult(writeOk, recentReadOk, recentWriteOk) ==
    /\ StoreResult(writeOk, recentReadOk, recentWriteOk)
    /\ UNCHANGED cachedFor

\* the query settles: what only the run needed is gone
Settle ==
    /\ pc' = "done"
    /\ failureCount' = 0
    /\ result' = Null
    /\ thrown' = Null
    /\ error' = Null
    /\ storeAtStart' = AsyncStorage
    /\ UNCHANGED <<globals, query, loop, inFlight, calls, lookup, faults, alone>>

\* queryFn returns the result of the provider
Return ==
    /\ pc = "return"
    /\ outcome' = [status |-> "data", data |-> result]
    /\ Settle

\* queryFn threw: useQuery runs it again (retry: 1) or hands the error over
QueryFailed ==
    /\ pc = "failed"
    /\ IF failureCount < queryRetry
       THEN /\ failureCount' = failureCount + 1
            /\ StartQueryFn
            /\ UNCHANGED <<query, faulty>>
       ELSE /\ outcome' = [status |-> "error", message |-> thrown.message]
            /\ Settle

\* time passes while a result or an error is on the screen: the calls of one
\* run are short beside the TTL
Advance ==
    /\ pc = "done"
    /\ now < MaxTicks * Tick
    /\ now' = now + Tick
    /\ UNCHANGED <<AsyncStorage, screen, alone>>

Next ==
    \/ \E url \in Urls, shareText \in ShareTexts : Navigate(url, shareText)
    \/ Refetch
    \/ GoBack
    \/ \E readOk \in BOOLEAN : QueryFn(readOk)
    \/ \E o \in UNION {PrimaryOutcomes(url) : url \in Urls} : PrimaryEnds(o)
    \/ \E o \in GeminiErrors : GenerateFails(o)
    \/ BackoffOver
    \/ \E o \in GeminiResponses : GenerateResponds(o)
    \/ \E writeOk, recentReadOk, recentWriteOk \in BOOLEAN :
            CacheResult(writeOk, recentReadOk, recentWriteOk)
    \/ Return
    \/ QueryFailed
    \/ Advance

Spec == Init /\ [][Next]_vars

\* the steps no provider has to answer for: the code between two awaits, the
\* storage, the setTimeout of fetchWithTimeout that aborts the fetch, and the
\* setTimeout of the backoff; generateContent is awaited without a timer
Scheduled ==
    \/ \E readOk \in BOOLEAN : QueryFn(readOk)
    \/ PrimaryEnds([kind |-> "timeout"])
    \/ BackoffOver
    \/ \E writeOk, recentReadOk, recentWriteOk \in BOOLEAN :
            CacheResult(writeOk, recentReadOk, recentWriteOk)
    \/ Return
    \/ QueryFailed

\* the same program, whose scheduled steps are taken when they stay possible
SpecLive == Init /\ [][Next]_vars /\ WF_vars(Scheduled)

\* ----------------------------------------------------------- the cache alone
\* the responses handed to cacheResult: one of the backend, and two of the
\* fallback, whose alternatives carry rating_estimate: undefined when the AI
\* gave none
Responses(url) ==
    {BackendData(url, minAccepted, FALSE),
     GeminiResult(url, GeminiData(maxAccepted, FALSE)),
     GeminiResult(url, GeminiData(minAccepted, TRUE))}

\* cacheResult(url, data) is called and completes
Put(url, data, writeOk, recentReadOk, recentWriteOk) ==
    /\ puts < MaxPuts
    /\ puts' = puts + 1
    /\ AsyncStorage' = cacheResult(AsyncStorage, url, data, now,
                                   writeOk, recentReadOk, recentWriteOk)
    /\ lastCall' = [lastCall EXCEPT ![url] = [data |-> data, at |-> now]]
    /\ lastStored' =
        IF writeOk
        THEN [lastStored EXCEPT ![url] =
                [data |-> data, at |-> now,
                 over |-> IF lastStored[url] = Null THEN Null ELSE lastStored[url].data]]
        ELSE lastStored
    /\ stamp' =
        [stamp EXCEPT ![url] =
            [stored |-> IF writeOk THEN puts + 1 ELSE @.stored,
             listed |-> IF writeOk /\ recentReadOk /\ recentWriteOk THEN puts + 1 ELSE @.listed]]
    /\ got' = Null
    /\ UNCHANGED <<now, screen, tasks, elsewhere>>

\* getCachedResult(url) is called and completes
GetCached(url, readOk) ==
    /\ got' = [url |-> url, readOk |-> readOk, at |-> now,
               value |-> getCachedResult(AsyncStorage, url, now, readOk)]
    /\ UNCHANGED <<now, AsyncStorage, screen, puts, lastCall, lastStored, stamp, tasks, elsewhere>>

\* time passes between the calls
Pass ==
    /\ now < MaxTicks * Tick
    /\ now' = now + Tick
    /\ got' = Null
    /\ UNCHANGED <<AsyncStorage, screen, puts, lastCall, lastStored, stamp, tasks, elsewhere>>

NextCache ==
    \/ \E url \in Urls : \E data \in Responses(url) :
        \E writeOk, recentReadOk, recentWriteOk \in BOOLEAN :
            Put(url, data, writeOk, recentReadOk, recentWriteOk)
    \/ \E url \in Urls, readOk \in BOOLEAN : GetCached(url, readOk)
    \/ Pass

SpecCache == Init /\ [][NextCache]_vars

\* ----------------------------------------------------------- every call of storage.ts
\* getRecentUrls() is called and completes (ProductInputScreen.loadRecentUrls)
GetRecentUrls(readOk) ==
    /\ got' = [list |-> getRecentUrls(AsyncStorage, readOk), readOk |-> readOk]
    /\ UNCHANGED <<now, AsyncStorage, screen, puts, lastCall, lastStored, stamp, tasks, elsewhere>>

\* clearAllCache() is called and completes
ClearAllCache(keysOk, removed) ==
    /\ removed \subseteq cacheKeys(AsyncStorage)
    /\ keysOk \/ removed = {}
    /\ AsyncStorage' = clearAllCache(AsyncStorage, keysOk, removed)
    /\ got' = [cleared |-> removed, keysOk |-> keysOk]
    /\ UNCHANGED <<now, screen, puts, lastCall, lastStored, stamp, tasks, elsewhere>>

NextStorage ==
    \/ NextCache
    \/ \E readOk \in BOOLEAN : GetRecentUrls(readOk)
    \/ \E keysOk \in BOOLEAN : \E removed \in SUBSET StorageKeys : ClearAllCache(keysOk, removed)

SpecStorage == Init /\ [][NextStorage]_vars

\* ----------------------------------------------------------- the recent list
\* the storage after the first k searches of History were made, the k-th
\* first and the first last, each with an answer of the backend
SearchedStore(k) ==
    [key \in StorageKeys \cup {CACHE_KEY_PREFIX \o u : u \in Searched} |->
        IF key = RECENT_URLS_KEY
        THEN (IF k = 0 THEN Null ELSE StringifyList(SubSeq(History, 1, k)))
        ELSE IF \E i \in 1..k : key = CACHE_KEY_PREFIX \o History[i]
        THEN LET i == CHOOSE j \in 1..k : key = CACHE_KEY_PREFIX \o History[j]
             IN  StringifyEntry([url |-> History[i],
                                 data |-> BackendData(History[i], minAccepted, FALSE),
                                 timestamp |-> 0])
        ELSE Null]

SearchedStamp(k) ==
    [u \in Urls \cup Searched |->
        IF \E i \in 1..k : u = History[i]
        THEN LET i == CHOOSE j \in 1..k : u = History[j]
             IN  [stored |-> 0 - i, listed |-> 0 - i]
        ELSE NoStamp]

\* the app after any number of earlier searches, up to a full recent list
InitRecent ==
    \E k \in 0..MAX_RECENT :
        /\ AsyncStorage = SearchedStore(k)
        /\ storeAtStart = SearchedStore(k)
        /\ lastCall = [u \in Urls \cup Searched |-> Null]
        /\ lastStored = [u \in Urls \cup Searched |-> Null]
        /\ stamp = SearchedStamp(k)
        /\ cachedFor = [u \in Urls \cup Searched |-> Null]
        /\ NothingRun

\* the urls searched next: two new ones and the two oldest of the list
PutUrls == Urls \cup {History[MAX_RECENT - 1], History[MAX_RECENT]}

\* calls of cacheResult, one at a time
NextRecent ==
    \E url \in PutUrls : \E data \in Responses(url) :
        \E writeOk, recentReadOk, recentWriteOk \in BOOLEAN :
            Put(url, data, writeOk, recentReadOk, recentWriteOk)

SpecRecent == InitRecent /\ [][NextRecent]_vars

\* ----------------------------------------------------------- runs in flight
\* queryFn takes no AbortSignal and passes none on: a run that was started
\* goes on to its end, whatever becomes of the screen and of the query
single == <<now, pc, failureCount, result, thrown, attempt, modelKeyIndex, inFlight, error,
            primaryCalls, secondaryCalls, generateCalls, lookup, storeAtStart, faulty,
            blocked, puts, lastCall, lastStored, got, stamp, elsewhere>>

InFlight(t) == t.pc \notin {"free", "done"}
Startable == {p \in Procs : ~InFlight(tasks[p])}
FirstFree == CHOOSE p \in Startable : \A q \in Startable : p <= q
NewTask(url, shareText) ==
    [FreeTask EXCEPT !.pc = "queryFn", !.role = "current", !.url = url, !.shareText = shareText]
\* the run has ended: its locals are gone; what is kept is whether it
\* called a provider, and whether one of its calls failed
Ended(t) ==
    [FreeTask EXCEPT !.pc = "done", !.url = t.url, !.calls = Min(t.calls, 1),
                     !.faulty = t.faulty]

\* the answers of the providers while several runs are in flight
TaskPrimaryOutcomes(url) ==
    {[kind |-> "timeout"], [kind |-> "ok", data |-> BackendData(url, maxAccepted, FALSE)]}
TaskGeminiResponses ==
    {[kind |-> "safety"],
     [kind |-> "text", form |-> PlainJSON, data |-> GeminiData(maxAccepted, FALSE)]}

\* ProductInputScreen: navigation.navigate('Recommendation', {url, shareText});
\* useQuery mounts: it joins the fetch in flight for its query key, or runs queryFn
Submit(url, shareText) ==
    /\ params = NoParams
    /\ params' = [url |-> url, shareText |-> shareText]
    /\ outcome' = Pending
    /\ refetching' = FALSE
    /\ LET same == {p \in Procs : /\ InFlight(tasks[p])
                                   /\ tasks[p].role = "orphan"
                                   /\ tasks[p].url = url
                                   /\ tasks[p].shareText = shareText}
       IN  IF same # {}
           THEN /\ tasks' = [p \in Procs |->
                                IF p \in same THEN [tasks[p] EXCEPT !.role = "current"]
                                ELSE tasks[p]]
                /\ UNCHANGED runs
           ELSE /\ runs < MaxStarts
                /\ Startable # {}
                /\ tasks' = [tasks EXCEPT ![FirstFree] = NewTask(url, shareText)]
                /\ runs' = runs + 1
    /\ UNCHANGED <<AsyncStorage, currentKeyIndex, faultyRuns, single>>

\* the back button of the header, or New Search: the screen unmounts, and the
\* fetch of its query goes on without an observer
Leave ==
    /\ params # NoParams
    /\ params' = NoParams
    /\ outcome' = Pending
    /\ refetching' = FALSE
    /\ tasks' = [p \in Procs |->
                    IF tasks[p].role = "current" THEN [tasks[p] EXCEPT !.role = "orphan"]
                    ELSE tasks[p]]
    /\ UNCHANGED <<AsyncStorage, currentKeyIndex, runs, faultyRuns, single>>

\* Refresh Prices or pull to refresh, while the alternatives are shown:
\* refetch() drops the fetch in flight of the query, if any, and runs queryFn
Refresh ==
    /\ outcome.status = "data"
    /\ Len(outcome.data.alternatives) > 0
    /\ runs < MaxStarts
    /\ Startable # {}
    /\ tasks' = [p \in Procs |->
                    IF p = FirstFree THEN NewTask(params.url, params.shareText)
                    ELSE IF tasks[p].role = "current" /\ InFlight(tasks[p])
                    THEN [tasks[p] EXCEPT !.role = "cancelled"]
                    ELSE tasks[p]]
    /\ runs' = runs + 1
    /\ refetching' = TRUE
    /\ UNCHANGED <<AsyncStorage, currentKeyIndex, params, outcome, faultyRuns, single>>

\* a step of the run p to the task t, in which a call failed unless ok
TaskStep(p, ok, t) ==
    /\ ok \/ tasks[p].faulty \/ faultyRuns < MaxFaultyRuns
    /\ faultyRuns' = IF ok \/ tasks[p].faulty THEN faultyRuns ELSE faultyRuns + 1
    /\ tasks' = [tasks EXCEPT ![p] = [t EXCEPT !.faulty = tasks[p].faulty \/ ~ok]]

\* a provider is called
TaskCalls(t, pc2) == [t EXCEPT !.pc = pc2, !.calls = @ + 1]

\* queryFn up to its first await of the network
TaskQueryFn(p, readOk) ==
    LET t == tasks[p]
        cached == getCachedResult(AsyncStorage, t.url, now, readOk)
    IN  /\ t.pc = "queryFn"
        /\ IF Truthy(t.shareText)
           THEN readOk /\ TaskStep(p, TRUE, TaskCalls(t, "primary"))
           ELSE IF cached # Null
           THEN TaskStep(p, TRUE, [t EXCEPT !.pc = "return", !.result = cached])
           ELSE TaskStep(p, readOk, TaskCalls(t, "primary"))
        /\ UNCHANGED <<AsyncStorage, currentKeyIndex, params, outcome, refetching, runs, single>>

\* the fetch of /recommend ends
TaskPrimaryEnds(p, o) ==
    LET t == tasks[p]
    IN  /\ t.pc = "primary"
        /\ o \in TaskPrimaryOutcomes(t.url)
        /\ IF PrimaryAccepted(o)
           THEN TaskStep(p, TRUE, [t EXCEPT !.pc = "setItem", !.result = o.data])
           ELSE TaskStep(p, FALSE, [TaskCalls(t, "gemini") EXCEPT !.attempt = 0])
        /\ UNCHANGED <<AsyncStorage, currentKeyIndex, params, outcome, refetching, runs, single>>

\* generateContent rejects: the catch block of retryWithBackoff
TaskGenerateFails(p, o) ==
    LET t == tasks[p]
        isLastAttempt == t.attempt = maxRetries - 1
    IN  /\ t.pc = "gemini"
        /\ o \in GeminiErrors
        /\ IF isQuotaError(o.message) /\ currentKeyIndex < Len(GEMINI_API_KEYS) - 1
           THEN /\ currentKeyIndex' = currentKeyIndex + 1
                /\ IF t.attempt + 1 < maxRetries
                   THEN TaskStep(p, FALSE, [TaskCalls(t, "gemini") EXCEPT !.attempt = @ + 1])
                   ELSE TaskStep(p, FALSE, [t EXCEPT !.pc = "failed",
                                                     !.thrown = BothFailed("Max retries reached")])
           ELSE /\ UNCHANGED currentKeyIndex
                /\ IF ~is503(o.message) \/ isLastAttempt
                   THEN TaskStep(p, FALSE, [t EXCEPT !.pc = "failed",
                                                     !.thrown = BothFailed(o.message)])
                   ELSE TaskStep(p, FALSE, [t EXCEPT !.pc = "backoff"])
        /\ UNCHANGED <<AsyncStorage, params, outcome, refetching, runs, single>>

\* the delay of retryWithBackoff is over
TaskBackoffOver(p) ==
    LET t == tasks[p]
    IN  /\ t.pc = "backoff"
        /\ TaskStep(p, TRUE, [TaskCalls(t, "gemini") EXCEPT !.attempt = @ + 1])
        /\ UNCHANGED <<AsyncStorage, currentKeyIndex, params, outcome, refetching, runs, single>>

\* generateContent resolves: the rest of getRecommendationsFromGemini
TaskGenerateResponds(p, o) ==
    LET t == tasks[p]
        r == ProcessGeminiResponse(t.url, o)
    IN  /\ t.pc = "gemini"
        /\ o \in TaskGeminiResponses
        /\ IF r.ok
           THEN TaskStep(p, TRUE, [t EXCEPT !.pc = "setItem", !.result = r.data, !.attempt = 0])
           ELSE TaskStep(p, FALSE, [t EXCEPT !.pc = "failed", !.attempt = 0,
                                             !.thrown = BothFailed(r.message)])
        /\ UNCHANGED <<AsyncStorage, currentKeyIndex, params, outcome, refetching, runs, single>>

\* cacheResult: await AsyncStorage.setItem(CACHE_KEY_PREFIX + url, ...)
TaskSetItem(p, ok) ==
    LET t == tasks[p]
    IN  /\ t.pc = "setItem"
        /\ TaskStep(p, ok, [t EXCEPT !.pc = IF ok THEN "getRecent" ELSE "return"])
        /\ AsyncStorage' = IF ok THEN cacheEntryWrite(AsyncStorage, t.url, t.result, now)
                           ELSE AsyncStorage
        /\ UNCHANGED <<currentKeyIndex, params, outcome, refetching, runs, single>>

\* addToRecentUrls: await AsyncStorage.getItem(RECENT_URLS_KEY)
TaskGetRecent(p, ok) ==
    LET t == tasks[p]
    IN  /\ t.pc = "getRecent"
        /\ TaskStep(p, ok, IF ok THEN [t EXCEPT !.pc = "setRecent",
                                                !.recent = recentOf(AsyncStorage)]
                           ELSE [t EXCEPT !.pc = "return"])
        /\ UNCHANGED <<AsyncStorage, currentKeyIndex, params, outcome, refetching, runs, single>>

\* addToRecentUrls: await AsyncStorage.setItem(RECENT_URLS_KEY, ...)
TaskSetRecent(p, ok) ==
    LET t == tasks[p]
    IN  /\ t.pc = "setRecent"
        /\ TaskStep(p, ok, [t EXCEPT !.pc = "return", !.recent = <<>>])
        /\ AsyncStorage' =
            IF ok THEN [AsyncStorage EXCEPT ![RECENT_URLS_KEY] =
                            StringifyList(updatedRecent(t.recent, t.url))]
            ELSE AsyncStorage
        /\ UNCHANGED <<currentKeyIndex, params, outcome, refetching, runs, single>>

\* queryFn returns: the query takes the data unless its fetch was dropped
TaskReturn(p) ==
    LET t == tasks[p]
    IN  /\ t.pc = "return"
        /\ TaskStep(p, TRUE, Ended(t))
        /\ IF t.role = "current"
           THEN outcome' = [status |-> "data", data |-> t.result] /\ refetching' = FALSE
           ELSE UNCHANGED <<outcome, refetching>>
        /\ UNCHANGED <<AsyncStorage, currentKeyIndex, params, runs, single>>

\* queryFn threw: useQuery runs it again (retry: 1) unless the fetch was
\* dropped, or takes the error
TaskFailed(p) ==
    LET t == tasks[p]
    IN  /\ t.pc = "failed"
        /\ IF t.role # "cancelled" /\ t.failureCount < queryRetry
           THEN /\ TaskStep(p, TRUE, [t EXCEPT !.pc = "queryFn", !.thrown = Null,
                                              !.failureCount = @ + 1])
                /\ UNCHANGED <<outcome, refetching>>
           ELSE /\ TaskStep(p, TRUE, Ended(t))
                /\ IF t.role = "current"
                   THEN /\ outcome' = [status |-> "error", message |-> t.thrown.message]
                        /\ refetching' = FALSE
                   ELSE UNCHANGED <<outcome, refetching>>
        /\ UNCHANGED <<AsyncStorage, currentKeyIndex, params, runs, single>>

NextConcurrent ==
    \/ \E url \in Urls, shareText \in ShareTexts : Submit(url, shareText)
    \/ Leave
    \/ Refresh
    \/ \E p \in Procs, readOk \in BOOLEAN : TaskQueryFn(p, readOk)
    \/ \E p \in Procs : \E o \in UNION {TaskPrimaryOutcomes(url) : url \in Urls} :
            TaskPrimaryEnds(p, o)
    \/ \E p \in Procs : \E o \in GeminiErrors : TaskGenerateFails(p, o)
    \/ \E p \in Procs : TaskBackoffOver(p)
    \/ \E p \in Procs : \E o \in TaskGeminiResponses : TaskGenerateResponds(p, o)
    \/ \E p \in Procs, ok \in BOOLEAN : TaskSetItem(p, ok)
    \/ \E p \in Procs, ok \in BOOLEAN : TaskGetRecent(p, ok)
    \/ \E p \in Procs, ok \in BOOLEAN : TaskSetRecent(p, ok)
    \/ \E p \in Procs : TaskReturn(p)
    \/ \E p \in Procs : TaskFailed(p)

SpecConcurrent == Init /\ [][NextConcurrent]_vars

\* ----------------------------------------------------------- the input screen
\* the ProductInputScreen in front of the query, when no call fails but the
\* backend's: what the user enters decides the url and the share text of the
\* request, and the screen stays mounted under the RecommendationScreen
InputKeys == StorageKeys \cup {CACHE_KEY_PREFIX \o u : u \in InputUrls}

InitInput ==
    /\ AsyncStorage = [k \in InputKeys |-> Null]
    /\ storeAtStart = [k \in InputKeys |-> Null]
    /\ lastCall = [u \in Urls |-> Null]
    /\ lastStored = [u \in Urls |-> Null]
    /\ stamp = [u \in Urls |-> NoStamp]
    /\ cachedFor = [u \in Urls \cup InputUrls |-> Null]
    /\ NothingRun

\* the user enters something while the input screen is in front
Enters(field, value) ==
    /\ pc = "idle"
    /\ input' = [input EXCEPT ![field] = value]

\* handleUrlChange(text): the text is kept as share text, the url extracted
HandleUrlChange(text) ==
    /\ pc = "idle"
    /\ input' = [input EXCEPT !.shareText = Concat(text), !.url = extractUrlFromText(text)]
    /\ UNCHANGED <<now, AsyncStorage, screen, puts, lastCall, lastStored, got, stamp, tasks,
                   cachedFor, component>>

\* handleProductTextChange(text)
HandleProductTextChange(text) ==
    /\ Enters("productText", text)
    /\ UNCHANGED <<now, AsyncStorage, screen, puts, lastCall, lastStored, got, stamp, tasks,
                   cachedFor, component>>

\* setSearchMode('url') / setSearchMode('text')
SetSearchMode(mode) ==
    /\ mode # input.searchMode
    /\ Enters("searchMode", mode)
    /\ UNCHANGED <<now, AsyncStorage, screen, puts, lastCall, lastStored, got, stamp, tasks,
                   cachedFor, component>>

\* handleSelectRecent(recentUrl), for an url of the list the screen shows
HandleSelectRecent(recentUrl) ==
    /\ pc = "idle"
    /\ \E i \in 1..Len(input.recentUrls) : input.recentUrls[i] = recentUrl
    /\ input' = [input EXCEPT !.url = recentUrl, !.shareText = ""]
    /\ UNCHANGED <<now, AsyncStorage, screen, puts, lastCall, lastStored, got, stamp, tasks,
                   cachedFor, component>>

\* handleSubmit()
HandleSubmit ==
    /\ pc = "idle"
    /\ IF input.searchMode = "url" /\ isValidProductUrl(input.url)
       THEN Navigate(input.url, input.shareText)
       ELSE IF input.searchMode = "text" /\ trim(input.productText) # <<>>
       THEN Navigate(SearchUrl(input.productText), Concat(input.productText))
       ELSE UNCHANGED vars

\* the app is started again: the modules are loaded, the input screen mounts
\* and loadRecentUrls() reads the list
Launch(readOk) ==
    /\ pc = "idle"
    /\ input' = [NoInput EXCEPT !.recentUrls = getRecentUrls(AsyncStorage, readOk)]
    /\ currentKeyIndex' = 0
    /\ UNCHANGED <<now, AsyncStorage, pc, query, loop, calls, faults, failureCount, outcome,
                   result, thrown, inFlight, error, lookup, storeAtStart, puts, lastCall,
                   lastStored, got, stamp, tasks, cachedFor, component>>

\* queryFn: await cacheResult(url, result), for the request of the screen
CacheResultOfRequest ==
    /\ StoreResult(TRUE, TRUE, TRUE)
    /\ cachedFor' = [cachedFor EXCEPT ![params.url] = params.shareText]

NextInput ==
    \/ \E readOk \in BOOLEAN : Launch(readOk)
    \/ \E text \in UrlTexts : HandleUrlChange(text)
    \/ \E text \in ProductTexts : HandleProductTextChange(text)
    \/ \E mode \in {"url", "text"} : SetSearchMode(mode)
    \/ \E recentUrl \in InputUrls : HandleSelectRecent(recentUrl)
    \/ HandleSubmit
    \/ GoBack
    \/ QueryFn(TRUE)
    \/ \E o \in UNION {TaskPrimaryOutcomes(url) : url \in InputUrls} : PrimaryEnds(o)
    \/ \E o \in TaskGeminiResponses : GenerateResponds(o)
    \/ CacheResultOfRequest
    \/ Return
    \/ QueryFailed
    \/ Advance

SpecInput == InitInput /\ [][NextInput]_vars

\* ----------------------------------------------------------- MultiSellerLinks
\* a url of a seller link is the sequence of its pieces: the scheme, the host,
\* the characters of the path one by one, and the words of the query
Https(host) == <<"https:", "/", "/", host>>
SearchPath == <<"/", "s", "e", "a", "r", "c", "h">>

\* url.includes(marker)
urlIncludes(url, marker) ==
    \E i \in 1..(Len(url) - Len(marker) + 1) : SubSeq(url, i, i + Len(marker) - 1) = marker

\* the render of a seller: isDirectLink, isSearchLink, hasPrice and the badge shown
isDirectLink(seller) ==
    \/ urlIncludes(seller.url, <<"/", "p", "/">>)
    \/ urlIncludes(seller.url, <<"/", "d", "p", "/">>)
    \/ urlIncludes(seller.url, <<"/", "p", "r", "n", "/">>)
    \/ urlIncludes(seller.url, <<"/", "p", "n", "/">>)
isSearchLink(seller) ==
    \/ urlIncludes(seller.url, SearchPath)
    \/ urlIncludes(seller.url, <<"/", "s", "?">>)
hasPrice(seller) ==
    /\ "price" \in DOMAIN seller
    /\ seller.price \notin {Null, "", "null"}
Badge(seller) ==
    IF isDirectLink(seller) THEN "DIRECT"
    ELSE IF isSearchLink(seller) THEN "SEARCH"
    ELSE "none"

\* getIconForPlatform(platform)
Icons ==
    [Flipkart |-> "cart", Meesho |-> "stall", Snapdeal |-> "bags", Myntra |-> "tie",
     Ajio |-> "dress", JioMart |-> "store", ShopClues |-> "label", Amazon |-> "package",
     Blinkit |-> "bolt", Instamart |-> "rocket", Zepto |-> "stopwatch"]
getIconForPlatform(platform) ==
    IF platform \in DOMAIN Icons THEN Icons[platform] ELSE "store"

\* the name the component shows for currentPlatform
PlatformName(currentPlatform) == IF currentPlatform = "amazon" THEN "Amazon" ELSE "Flipkart"

\* productName.split(' ').slice(0, 5).join(' ')
FirstWords(productName) ==
    LET words == split(productName)
    IN  join(SubSeq(words, 1, IF Len(words) < 5 THEN Len(words) ELSE 5))

\* getFallbackSearchLinks: the search query and one link
searchQuery(productName, productBrand) ==
    encodeURIComponent(productBrand \o <<" ">> \o FirstWords(productName))
SearchLink(platform, url, icon) ==
    [platform |-> platform, url |-> url, available |-> TRUE, icon |-> icon]

\* getFallbackSearchLinks: the link pushed unless the product is from Flipkart
FlipkartLinksAlways(q, currentPlatform) ==
    << SearchLink("Flipkart",
                  Https("www.flipkart.com") \o SearchPath \o <<"?", "q", "=">> \o q, "cart") >>
FlipkartLinks(q, currentPlatform) ==
    IF currentPlatform # "flipkart"
    THEN << SearchLink("Flipkart",
                       Https("www.flipkart.com") \o SearchPath \o <<"?", "q", "=">> \o q,
                       "cart") >>
    ELSE <<>>

\* getFallbackSearchLinks: the link pushed unless the product is from Amazon
AmazonLinks(q, currentPlatform) ==
    IF currentPlatform # "amazon"
    THEN << SearchLink("Amazon",
                       Https("www.amazon.in") \o <<"/", "s", "?", "k", "=">> \o q, "package") >>
    ELSE <<>>

\* getFallbackSearchLinks: the links pushed for every product
OtherLinks(q) ==
    << SearchLink("Meesho",
                  Https("www.meesho.com") \o SearchPath \o <<"?", "q", "=">> \o q, "stall"),
       SearchLink("Snapdeal",
                  Https("www.snapdeal.com") \o SearchPath
                      \o <<"?", "k", "e", "y", "w", "o", "r", "d", "=">> \o q, "bags"),
       SearchLink("JioMart",
                  Https("www.jiomart.com") \o SearchPath \o <<"/">> \o q, "store"),
       SearchLink("Blinkit",
                  Https("blinkit.com") \o <<"/", "s", "/", "?", "q", "=">> \o q, "bolt"),
       SearchLink("Instamart",
                  Https("www.swiggy.com")
                      \o <<"/", "i", "n", "s", "t", "a", "m", "a", "r", "t">> \o SearchPath
                      \o <<"?", "q", "=">> \o q, "rocket"),
       SearchLink("Zepto",
                  Https("www.zepto.com") \o SearchPath
                      \o <<"?", "q", "u", "e", "r", "y", "=">> \o q, "stopwatch") >>

\* getFallbackSearchLinks(), of a component with these props
getFallbackSearchLinksAppended(productName, productBrand, currentPlatform) ==
    LET q == searchQuery(productName, productBrand)
    IN  sellers \o FlipkartLinks(q, currentPlatform) \o AmazonLinks(q, currentPlatform)
            \o OtherLinks(q)
getFallbackSearchLinks(productName, productBrand, currentPlatform) ==
    LET q == searchQuery(productName, productBrand)
    IN  FlipkartLinks(q, currentPlatform) \o AmazonLinks(q, currentPlatform) \o OtherLinks(q)

\* the marketplaces getFallbackSearchLinks has a link for
Marketplaces ==
    {"Flipkart", "Amazon", "Meesho", "Snapdeal", "JioMart", "Blinkit", "Instamart", "Zepto"}

\* the products a ProductCard shows other sellers for: title, brand, source_site
ProductNames ==
    { <<"Realme", " ", "Buds", " ", "T300">>,
      <<"Men", " ", "Running", " ", "Shoe", " ", "Size", " ", "9", " ", "Black">>,
      <<"Cable", " ", "/", "p", "/", " ", "2m">> }
ProductBrands == { <<"Realme">>, <<>> }
Products ==
    [productName : ProductNames, productBrand : ProductBrands,
     currentPlatform : {"amazon", "flipkart", "other"}]

\* what the backend's /multi-platform/search answers with: data.sellers
BackendSellers ==
    { <<>>,
      << [platform |-> "Flipkart",
          url |-> Https("www.flipkart.com") \o <<"/", "item", "/", "p", "/", "itm1">>,
          price |-> "Rs 999", available |-> TRUE],
         [platform |-> "Croma",
          url |-> Https("www.croma.com") \o SearchPath \o <<"?", "q", "=", "buds">>,
          price |-> Null, available |-> TRUE] >> }

\* how the call of fetch and the reading of its response end
SearchOutcomes ==
    {[kind |-> "timeout"], [kind |-> "network"], [kind |-> "http"], [kind |-> "badjson"],
     [kind |-> "shape"]}
    \cup [kind : {"ok"}, sellers : BackendSellers]

\* data.sellers.map(...): the backend's sellers as SellerLinks
sellerLinks(list) ==
    [i \in 1..Len(list) |->
        [platform |-> list[i].platform, url |-> list[i].url, price |-> list[i].price,
         available |-> list[i].available, icon |-> getIconForPlatform(list[i].platform)]]

\* searchOtherPlatforms: a failure is whatever ends in the else branch or in catch
SearchFailedOrEmpty(o) == o.kind # "ok" \/ o.sellers = <<>>
SearchFailed(o) == o.kind # "ok"

\* searchOtherPlatforms: what setSellers is called with
SellersSetUncaught(o) ==
    IF o.kind = "ok" THEN sellerLinks(o.sellers)
    ELSE IF o.kind = "http"
    THEN getFallbackSearchLinks(props.productName, props.productBrand, props.currentPlatform)
    ELSE sellers
SellersSet(o) ==
    IF SearchFailed(o)
    THEN getFallbackSearchLinks(props.productName, props.productBrand, props.currentPlatform)
    ELSE sellerLinks(o.sellers)

\* what the component shows
View ==
    IF ~expanded THEN "button"
    ELSE IF loading THEN "loading"
    ELSE IF sellers = <<>> THEN "exclusive"
    ELSE "list"

\* a ProductCard renders the component for its product
Mount(product) ==
    /\ props = NoProps
    /\ props' = product
    /\ UNCHANGED <<now, AsyncStorage, screen, puts, lastCall, lastStored, got, stamp, tasks,
                   input, cachedFor, expanded, loading, sellers, searching, made, answered>>

\* handleExpand(), with searchOtherPlatforms() up to its await
HandleExpand ==
    /\ props # NoProps
    /\ IF ~expanded /\ sellers = <<>>
       THEN /\ Len(made) + searching < MaxSearches
            /\ loading' = TRUE
            /\ searching' = searching + 1
       ELSE UNCHANGED <<loading, searching>>
    /\ expanded' = ~expanded
    /\ UNCHANGED <<now, AsyncStorage, screen, puts, lastCall, lastStored, got, stamp, tasks,
                   input, cachedFor, props, sellers, made, answered>>

\* searchOtherPlatforms(), from the end of fetch on
SearchEnds(o) ==
    /\ searching > 0
    /\ searching' = searching - 1
    /\ sellers' = SellersSet(o)
    /\ made' = IF SearchFailed(o)
               THEN Append(made, getFallbackSearchLinks(props.productName, props.productBrand,
                                                        props.currentPlatform))
               ELSE made
    /\ loading' = FALSE
    /\ answered' = o.kind
    /\ UNCHANGED <<now, AsyncStorage, screen, puts, lastCall, lastStored, got, stamp, tasks,
                   input, cachedFor, props, expanded>>

NextSellers ==
    \/ \E product \in Products : Mount(product)
    \/ HandleExpand
    \/ \E o \in SearchOutcomes : SearchEnds(o)

SpecSellers == Init /\ [][NextSellers]_vars

\* ----------------------------------------------------------- properties
AllPrimaryOutcomes == UNION {PrimaryOutcomes(url) : url \in Urls}
TimedOut == [message |-> "Request timeout - backend is taking too long"]
BothFailedText == "Both backend and Gemini failed. Gemini error: "

\* the store holds for the url the entry cacheResult(url, data) writes at time t
Stored(store, url, data, t) ==
    EntryOf(store, url) = [url |-> url, data |-> StringifyResponse(data), timestamp |-> t]

Ids(alternatives) == [i \in 1..Len(alternatives) |-> Get(alternatives[i], "id")]

\* two responses that read the same, property by property
SameItem(x, y) == \A k \in DOMAIN x \cup DOMAIN y : Get(x, k) = Get(y, k)
SameResponse(a, b) ==
    /\ [a EXCEPT !.alternatives = <<>>] = [b EXCEPT !.alternatives = <<>>]
    /\ Len(a.alternatives) = Len(b.alternatives)
    /\ \A i \in 1..Len(a.alternatives) : SameItem(a.alternatives[i], b.alternatives[i])

\* queryFn found an entry younger than the TTL
Young(l) == l.data # Null /\ l.age < CACHE_TTL
\* the query ended with the payload of that entry and without a provider call
ServedFromCache ==
    /\ pc = "done"
    /\ outcome = [status |-> "data", data |-> lookup.data]
    /\ primaryCalls = 0
    /\ secondaryCalls = 0

\* C1, as amended: without share text, when the read of the storage succeeds
\* and the entry of the url is younger than the TTL, queryFn returns exactly
\* the cached payload and calls neither provider.
C1_CacheHit == (lookup.state = "read" /\ Young(lookup)) => ServedFromCache

\* C1 as stated: whenever queryFn consults the cache (no share text) and the
\* entry is younger than the TTL, the cached payload is returned and no
\* provider is called.
C1_AsStated == (lookup.state \in {"read", "failed"} /\ Young(lookup)) => ServedFromCache

C1_Witness ==
    /\ lookup.state = "read"
    /\ Young(lookup)
    /\ lookup.age > 0
    /\ ServedFromCache

\* C2 as stated, for the behaviours in which no call fails: the data handed
\* to the screen has at least minAccepted alternatives, and so has every
\* response the cache holds.
C2_AtLeastMinAccepted ==
    faultyRuns = 0 =>
        /\ outcome.status = "data" => Len(outcome.data.alternatives) >= minAccepted
        /\ \A url \in Urls :
            EntryOf(AsyncStorage, url) # Null =>
                Len(EntryOf(AsyncStorage, url).data.alternatives) >= minAccepted

\* C3 as stated, for the behaviours in which no call fails: when the backend
\* answers 2xx with an alternatives array of fewer than minAccepted entries,
\* getRecommendations calls the fallback once, and nothing is returned or
\* thrown at that step.
C3_FewAlternativesFallBack ==
    [][\A o \in AllPrimaryOutcomes :
        (/\ faultyRuns = 0
         /\ pc = "primary"
         /\ PrimaryAccepted(o)
         /\ Len(o.data.alternatives) < minAccepted
         /\ PrimaryEnds(o))
            => (secondaryCalls' = secondaryCalls + 1 /\ result' = Null /\ thrown' = Null)]_vars

\* C4: every failure of the fetch of /recommend (timeout, network, non-2xx,
\* unparsable body, no alternatives array) starts the fallback and shows
\* nothing to the caller; an error is thrown only from the fallback, after it
\* was called.
C4_PrimaryFailureFallsBack ==
    [][/\ \A o \in AllPrimaryOutcomes :
            (pc = "primary" /\ ~PrimaryAccepted(o) /\ PrimaryEnds(o))
                => /\ secondaryCalls' = secondaryCalls + 1
                   /\ "secondary" \in inFlight'
                   /\ thrown' = Null
                   /\ outcome' = Pending
                   /\ error' = [message |-> PrimaryErrorMessage(o)]
       /\ (thrown = Null /\ thrown' # Null)
            => (pc = "gemini" /\ secondaryCalls = 1 /\ "secondary" \in inFlight)]_vars

C4_Witness ==
    /\ pc = "gemini"
    /\ secondaryCalls = 1
    /\ "secondary" \in inFlight
    /\ error = [message |->
                    "Backend returned invalid JSON: Invalid response structure from backend"]

\* C5: in one run the providers are called one after the other: never both in
\* flight, the backend at most once, the fallback only at the step where the
\* fetch of the backend ends in a failure, and never once a result was accepted.
C5_Sequential ==
    /\ [](Cardinality(inFlight) <= 1 /\ primaryCalls <= 1 /\ secondaryCalls <= 1)
    /\ [][/\ secondaryCalls' > secondaryCalls
                => /\ "primary" \in inFlight
                   /\ "primary" \notin inFlight'
                   /\ error' # Null
                   /\ result' = Null
          /\ "secondary" \in inFlight' => (primaryCalls' = 1 /\ error' # Null)
          /\ (pc = "primary" /\ pc' = "cacheResult")
                => (secondaryCalls' = 0 /\ inFlight' = {})
          /\ pc \in {"cacheResult", "return"}
                => (secondaryCalls' = secondaryCalls /\ inFlight' = {})]_vars

C5_Witness ==
    /\ pc = "gemini"
    /\ inFlight = {"secondary"}
    /\ primaryCalls = 1
    /\ generateCalls = 2

\* the error getRecommendations throws names what the fallback threw
SecondaryCauseCarried ==
    (pc = "gemini" /\ pc' = "failed") =>
        /\ \A o \in GeminiErrors :
            GenerateFails(o)
                => thrown'.message \in {BothFailedText \o o.message,
                                        BothFailedText \o "Max retries reached"}
        /\ \A o \in GeminiResponses :
            GenerateResponds(o)
                => thrown'.message =
                        BothFailedText \o ProcessGeminiResponse(params.url, o).message
        /\ result' = Null
        /\ outcome' = Pending

Affixes ==
    LET causes == {o.message : o \in GeminiErrors} \cup {"Max retries reached"}
                  \cup UNION {{ProcessGeminiResponse(url, o).message :
                                o \in {r \in GeminiResponses :
                                        ~ProcessGeminiResponse(url, r).ok}} : url \in Urls}
    IN  {"", BothFailedText} \cup causes \cup {BothFailedText \o c : c \in causes}
Carries(message, cause) == \E a, b \in Affixes : message = a \o cause \o b

NoEntryAndTimeout ==
    lookup.state \in {"read", "skipped"} /\ lookup.data = Null /\ error = TimedOut
\* the fallback's answer: k complete alternatives, minAccepted <= k <= maxAccepted
ValidAnswer(o) ==
    /\ o.kind = "text"
    /\ extractJSON(o).ok
    /\ Len(o.data.alternatives) \in minAccepted..maxAccepted
    /\ \A i \in 1..Len(o.data.alternatives) :
        {"id", "brand", "title", "source_url"} \subseteq DOMAIN o.data.alternatives[i]

\* the result getRecommendationsFromGemini makes of such an answer
FromValidAnswer(r) ==
    \E o \in GeminiResponses : ValidAnswer(o) /\ r = GeminiResult(params.url, o.data)

TimeoutThenValidAnswer ==
    /\ \A o \in GeminiResponses :
        (pc = "gemini" /\ NoEntryAndTimeout /\ ValidAnswer(o) /\ GenerateResponds(o))
            => /\ pc' = "cacheResult"
               /\ Ids(result'.alternatives) = Ids(o.data.alternatives)
    /\ (pc = "return" /\ pc' = "done" /\ NoEntryAndTimeout /\ FromValidAnswer(result))
            => (outcome' = [status |-> "data", data |-> result] /\ AsyncStorage' = AsyncStorage)

\* C7, as amended: no entry, the backend times out and the fallback answers k
\* valid alternatives: the query ends with exactly those k, in order, and
\* when the write of the entry succeeds the cache holds the result under the
\* key of the url.
C7_TimeoutThenFallback ==
    [][/\ TimeoutThenValidAnswer
       /\ \A recentReadOk, recentWriteOk \in BOOLEAN :
            (pc = "cacheResult" /\ NoEntryAndTimeout /\ FromValidAnswer(result)
                /\ CacheResult(TRUE, recentReadOk, recentWriteOk))
                => Stored(AsyncStorage', params.url, result, now)]_vars

\* C7 as stated: the cache holds the result whenever the query ends that way.
C7_AsStated ==
    [][/\ TimeoutThenValidAnswer
       /\ (pc = "cacheResult" /\ pc' = "return" /\ NoEntryAndTimeout /\ FromValidAnswer(result))
            => Stored(AsyncStorage', params.url, result, now)]_vars

C7_Witness ==
    /\ pc = "return"
    /\ NoEntryAndTimeout
    /\ params.url = "https://www.amazon.in/dp/B000TEST"
    /\ Ids(result.alternatives) = <<"p1", "p2", "p3">>
    /\ result.category = "earbuds"
    /\ Stored(AsyncStorage, params.url, result, now)

HeadOfRecent(store, url) == recentOf(store) # <<>> /\ Head(recentOf(store)) = url

\* C8, as amended: a run that got a result from a provider calls cacheResult
\* before it returns; when the storage calls succeed the entry is under the
\* key of the url and the url heads the recent list; a rejected write of the
\* entry leaves the storage as it was, a rejected read or write of the list
\* leaves the list as it was; a run that fails writes nothing.
C8_WriteThrough ==
    [][/\ \A writeOk, recentReadOk, recentWriteOk \in BOOLEAN :
            (pc = "cacheResult" /\ CacheResult(writeOk, recentReadOk, recentWriteOk))
                => IF writeOk
                   THEN /\ Stored(AsyncStorage', params.url, result, now)
                        /\ IF recentReadOk /\ recentWriteOk
                           THEN HeadOfRecent(AsyncStorage', params.url)
                           ELSE recentOf(AsyncStorage') = recentOf(AsyncStorage)
                   ELSE AsyncStorage' = AsyncStorage
       /\ (pc = "return" /\ pc' = "done")
            => (outcome' = [status |-> "data", data |-> result] /\ AsyncStorage' = AsyncStorage)
       /\ pc' = "failed" => AsyncStorage' = storeAtStart'
       /\ (pc = "failed" /\ pc' = "done") => AsyncStorage' = storeAtStart]_vars

\* C8 as stated: whenever a provider's result is about to be returned, the
\* entry is in the cache and the url heads the recent list (here for the runs
\* whose lookup, if any, did not fail); a failed run wrote nothing.
C8_AsStated ==
    /\ (pc = "return" /\ lookup.state # "failed") =>
        (Stored(AsyncStorage, params.url, result, now) /\ HeadOfRecent(AsyncStorage, params.url))
    /\ pc = "failed" => AsyncStorage = storeAtStart

C8_Witness ==
    /\ pc = "return"
    /\ Truthy(params.shareText)
    /\ Stored(AsyncStorage, params.url, result, now)
    /\ Len(recentOf(AsyncStorage)) = 2
    /\ HeadOfRecent(AsyncStorage, params.url)
    /\ AsyncStorage # storeAtStart

\* C9 as stated, for the behaviours in which no call fails: a query started
\* by refetch(), or one with share text, calls the backend though the cache
\* holds an entry of the url within the TTL.
C9_RefreshSkipsCache ==
    (/\ faultyRuns = 0
     /\ pc = "done"
     /\ refetching \/ Truthy(params.shareText)
     /\ lookup.state # "none"
     /\ lookup.data # Null
     /\ lookup.age <= CACHE_TTL)
        => primaryCalls = 1

\* getCachedResult(url) came back, at most the TTL after the call c of cacheResult(url, _)
ReadBack(c) == got # Null /\ c[got.url] # Null /\ got.at - c[got.url].at <= CACHE_TTL
GotSame(c) == got.value # Null /\ SameResponse(got.value, c[got.url].data)

\* C10, as amended: when the write of the entry and the read succeed,
\* getCachedResult(url) within the TTL returns a response that reads the same
\* as the one of the last cacheResult(url, R) whose write succeeded, whatever
\* was stored for the url before.
C10_RoundTrip == (ReadBack(lastStored) /\ got.readOk) => GotSame(lastStored)

\* C10 as stated: getCachedResult(url) within the TTL returns a response
\* equal to the one of the last call cacheResult(url, R).
C10_AsStated == ReadBack(lastCall) => GotSame(lastCall)

C10_Witness ==
    /\ ReadBack(lastStored)
    /\ got.readOk
    /\ got.at > lastStored[got.url].at
    /\ lastStored[got.url].over # Null
    /\ ~SameResponse(lastStored[got.url].over, lastStored[got.url].data)
    /\ got.value # lastStored[got.url].data
    /\ GotSame(lastStored)

\* ----------------------------------------------------------- C11 .. C20
\* C11 as stated, for the behaviours in which no call fails: getCachedResult
\* on an entry older than the TTL returns a miss and removes the entry, so
\* that the store holds no entry for the url after it; and what it returns
\* is the payload of an entry no older than the TTL.
C11_ExpiredEvicted ==
    [][(faultyRuns = 0 /\ pc = "queryFn" /\ ~Truthy(params.shareText) /\ QueryFn(TRUE))
        => LET entry == EntryOf(AsyncStorage, params.url)
           IN  /\ (/\ entry # Null
                    /\ Len(entry.data.alternatives) >= minAccepted
                    /\ now - entry.timestamp > CACHE_TTL)
                    => (outcome' = Pending /\ EntryOf(AsyncStorage', params.url) = Null)
               /\ outcome'.status = "data"
                    => /\ entry # Null
                       /\ now - entry.timestamp <= CACHE_TTL
                       /\ outcome'.data = entry.data]_vars

\* C15 as stated: in retryWithBackoff a quota error that rotates the key
\* sends generateContent again and leaves the count of attempts as it was,
\* so that a call that rotated once gives up on an overload error only
\* after maxRetries further calls of generateContent.
C15_RotationKeepsAttempts ==
    [][\A o \in GeminiErrors :
        (pc = "gemini" /\ lookup.state # "failed" /\ GenerateFails(o))
            => /\ currentKeyIndex' # currentKeyIndex
                    => (attempt' = attempt /\ "secondary" \in inFlight')
               /\ (is503(o.message) /\ pc' = "failed" /\ currentKeyIndex - modelKeyIndex = 1)
                    => generateCalls = 1 + maxRetries]_vars

\* C16 as stated: once the safety filter blocked the fallback for a request,
\* the fallback is not called again for that request: generateContent is not
\* sent again, and no run of queryFn that useQuery starts by itself calls
\* getRecommendationsFromGemini (here for the requests with share text,
\* whose runs do not read the cache).
C16_SafetyBlockedTerminal ==
    [][(blocked /\ lookup.state = "skipped")
        => (generateCalls' <= generateCalls /\ secondaryCalls' <= secondaryCalls)]_vars

\* an entry with id, brand, title and source url, none of them empty
Complete(alt) == \A k \in {"id", "brand", "title", "source_url"} : Truthy(Get(alt, k))
AllComplete(alternatives) == \A i \in 1..Len(alternatives) : Complete(alternatives[i])
CompleteOnes(alternatives) == SelectSeq(alternatives, Complete)
FirstIds(alternatives, n) == SubSeq(Ids(alternatives), 1, Min(n, Len(alternatives)))

\* C18 as stated: an answer of maxAccepted + 3 valid alternatives, of the
\* backend (here in the behaviours in which no call fails) or of the
\* fallback, gives a result of exactly the first maxAccepted of them, and no
\* error.
C18_TruncatedToMaxAccepted ==
    [][/\ \A o \in AllPrimaryOutcomes :
            (/\ faultyRuns = 0
             /\ pc = "primary"
             /\ PrimaryAccepted(o)
             /\ Len(o.data.alternatives) = maxAccepted + 3
             /\ AllComplete(o.data.alternatives)
             /\ PrimaryEnds(o))
                => /\ pc' = "cacheResult"
                   /\ Ids(result'.alternatives) = FirstIds(o.data.alternatives, maxAccepted)
       /\ \A o \in GeminiResponses :
            (/\ pc = "gemini"
             /\ o.kind = "text"
             /\ extractJSON(o).ok
             /\ Len(o.data.alternatives) = maxAccepted + 3
             /\ AllComplete(o.data.alternatives)
             /\ GenerateResponds(o))
                => /\ pc' = "cacheResult"
                   /\ Ids(result'.alternatives) = FirstIds(o.data.alternatives, maxAccepted)]_vars

\* C19 as stated: the result made of a provider's answer, of the backend
\* (here in the behaviours in which no call fails) or of the fallback, holds
\* only alternatives with non-empty id, brand, title and source url, and
\* none for an entry of the answer that lacks one of them.
C19_IncompleteDropped ==
    [][/\ \A o \in AllPrimaryOutcomes :
            (faultyRuns = 0 /\ pc = "primary" /\ PrimaryAccepted(o) /\ PrimaryEnds(o)
                /\ pc' = "cacheResult")
                => /\ AllComplete(result'.alternatives)
                   /\ Len(result'.alternatives) <= Len(CompleteOnes(o.data.alternatives))
       /\ \A o \in GeminiResponses :
            (pc = "gemini" /\ o.kind = "text" /\ GenerateResponds(o) /\ pc' = "cacheResult")
                => /\ AllComplete(result'.alternatives)
                   /\ Len(result'.alternatives) <= Len(CompleteOnes(o.data.alternatives))]_vars

\* C20 as stated: extractJSON returns the document when the whole text, the
\* fenced block or the substring from the first { to the last } parses, and
\* throws only when none of the three does.
C20_FirstSuccessWins ==
    [][\A o \in GeminiResponses :
        (pc = "gemini" /\ lookup.state # "failed" /\ o.kind = "text" /\ GenerateResponds(o))
            => IF "good" \in {o.form.raw, o.form.fence, o.form.brace}
               THEN /\ extractJSON(o) = Parsed(o.data)
                    /\ pc' = "failed"
                        => thrown' = BothFailed("No alternatives found in AI response")
               ELSE ~extractJSON(o).ok /\ pc' = "failed"]_vars

\* the query is settled: Success or Failed
Terminal == pc = "done"
\* a call of this run may fail
MayFail == faulty \/ faultyRuns < MaxFaultyRuns

\* C17 as stated: a run of queryFn that called the backend ends in Success
\* or Failed whatever the providers do, and the timeout of the backend call
\* ends the call and starts the fallback without another call of the backend.
C17_AlwaysTerminates ==
    /\ (pc = "primary" /\ MayFail) ~> Terminal
    /\ [][(pc = "primary" /\ PrimaryEnds([kind |-> "timeout"]))
            => /\ inFlight' = {"secondary"}
               /\ primaryCalls' = primaryCalls]_vars

\* the urls of the recent list, and the place of a url in it
Recent == recentOf(AsyncStorage)
Listed(at) == {u \in DOMAIN stamp : stamp[u][at] # Never}
\* the list holds the urls with the latest stamps, the later the nearer the head
MostRecentFirst(at) ==
    /\ Len(Recent) <= MAX_RECENT
    /\ Len(Recent) = Min(MAX_RECENT, Cardinality(Listed(at)))
    /\ \A i \in 1..Len(Recent) : Recent[i] \in Listed(at)
    /\ \A i, j \in 1..Len(Recent) : i < j => stamp[Recent[i]][at] > stamp[Recent[j]][at]
    /\ \A u \in Listed(at) :
        (\A i \in 1..Len(Recent) : Recent[i] # u)
            => \A i \in 1..Len(Recent) : stamp[u][at] < stamp[Recent[i]][at]

\* C12, as amended: after any sequence of calls of cacheResult run one at a
\* time, the recent list has at most MAX_RECENT urls, none twice, and holds
\* the urls of the latest calls whose write of the list succeeded, the
\* latest first: its head is the url of the last call whose three storage
\* calls succeeded.
C12_RecentList == MostRecentFirst("listed")

\* C12 as stated: the list is in the order of the puts that succeeded, that
\* is, whose entry the cache holds: its head is the url of the last of them.
C12_AsStated == MostRecentFirst("stored")

C12_Witness ==
    /\ puts = 2
    /\ Recent = <<History[MAX_RECENT - 1], "https://www.amazon.in/dp/B000TEST">>
                    \o SubSeq(History, 1, MAX_RECENT - 2)
    /\ EntryOf(AsyncStorage, History[MAX_RECENT]) # Null

\* the run p got its result from a provider and has ended
RanToEnd(p) == tasks[p].pc = "done" /\ tasks[p].calls > 0
InRecent(store, url) == \E i \in 1..Len(recentOf(store)) : recentOf(store)[i] = url

\* C13 as stated, for the behaviours in which no call fails: when two runs
\* for different urls have ended, however the steps of their cacheResult
\* were interleaved, the cache holds the entries of both urls and the recent
\* list holds both urls.
C13_NoContention ==
    \A p, q \in Procs :
        (/\ faultyRuns = 0
         /\ RanToEnd(p)
         /\ RanToEnd(q)
         /\ tasks[p].url # tasks[q].url)
            => /\ EntryOf(AsyncStorage, tasks[p].url) # Null
               /\ EntryOf(AsyncStorage, tasks[q].url) # Null
               /\ InRecent(AsyncStorage, tasks[p].url)
               /\ InRecent(AsyncStorage, tasks[q].url)

\* the runs of one query: the same url and the same share text
SameQuery(t, u) == t.url = u.url /\ t.shareText = u.shareText

\* the run waits for the answer of a provider
AtProvider(t) == t.pc \in {"primary", "gemini"}

\* C14 as stated, for the behaviours in which no call fails: a run that a
\* refresh dropped while it was past its cache lookup calls no provider any
\* more, writes nothing to the storage and hands nothing to the screen; and
\* no two runs of one query wait for a provider at the same time.
C14_RefreshCancels ==
    /\ [](faultyRuns = 0 =>
            \A p, q \in Procs :
                (p # q /\ AtProvider(tasks[p]) /\ AtProvider(tasks[q]))
                    => ~SameQuery(tasks[p], tasks[q]))
    /\ [][\A p \in Procs :
            (/\ faultyRuns = 0
             /\ tasks[p].role = "cancelled"
             /\ tasks[p].pc # "queryFn"
             /\ tasks'[p] # tasks[p])
                => /\ tasks'[p].calls = tasks[p].calls
                   /\ AsyncStorage' = AsyncStorage
                   /\ outcome' = outcome]_vars

\* ----------------------------------------------------------- C21 .. C30
\* the quota error finds a key that was not used yet
Rotates(o) == isQuotaError(o.message) /\ currentKeyIndex < Len(GEMINI_API_KEYS) - 1
\* the key generateContent is sent with: the one of the model object
KeyInUse(index) == GEMINI_API_KEYS[index + 1]

\* C29 as stated: when generateContent fails with a quota error and a key
\* was not used yet, the call retryWithBackoff makes next is sent with that
\* key; and the index of the current key stays within the keys and never
\* goes down.
C29_NextAttemptWithAlternate ==
    [][\A o \in GeminiErrors :
        (pc = "gemini" /\ lookup.state # "failed" /\ GenerateFails(o))
            => /\ currentKeyIndex' \in 0..(Len(GEMINI_API_KEYS) - 1)
               /\ currentKeyIndex' >= currentKeyIndex
               /\ (Rotates(o) /\ pc' = "gemini")
                    => /\ currentKeyIndex' = currentKeyIndex + 1
                       /\ KeyInUse(modelKeyIndex') = KeyInUse(currentKeyIndex')
                       /\ KeyInUse(modelKeyIndex') # KeyInUse(modelKeyIndex)]_vars

\* C30 as stated: retryWithBackoff calls generateContent at most maxRetries
\* times; it goes on after an overload error or a rotation of the key only,
\* throws any other error at once, and throws the error of the last call
\* when the calls are used up.
C30_RetryBounded ==
    [][\A o \in GeminiErrors :
        (pc = "gemini" /\ lookup.state # "failed" /\ GenerateFails(o))
            => /\ generateCalls <= maxRetries
               /\ pc' \in {"gemini", "backoff"} => (is503(o.message) \/ Rotates(o))
               /\ (~is503(o.message) /\ ~Rotates(o))
                    => (pc' = "failed" /\ thrown' = BothFailed(o.message))
               /\ generateCalls = maxRetries
                    => (pc' = "failed" /\ thrown' = BothFailed(o.message))]_vars

\* the string the store holds under the key of the recent list
RecentJson(store) == store[RECENT_URLS_KEY]

\* the step is a call of getCachedResult ("value"), getRecentUrls ("list") or
\* clearAllCache ("cleared"), which leaves what it answered in got
Answers(field) == puts' = puts /\ now' = now /\ got' # Null /\ field \in DOMAIN got'

\* C28: the string stored for the recent list changes only in a call of
\* cacheResult whose entry write and whose read and write of the list all
\* succeed (the call stamps its url as stored and as listed); getCachedResult,
\* getRecentUrls, clearAllCache and a cacheResult whose entry write is
\* rejected (a call that stamps no url as stored) leave it as it was, and
\* getCachedResult leaves the whole store, the entry it returns included, as
\* it was.
C28_RecentListFrame ==
    [][/\ RecentJson(AsyncStorage') # RecentJson(AsyncStorage)
            => /\ puts' = puts + 1
               /\ \E url \in Urls :
                    /\ stamp'[url] = [stored |-> puts', listed |-> puts']
                    /\ EntryOf(AsyncStorage', url) # Null
                    /\ Head(recentOf(AsyncStorage')) = url
       /\ Answers("value") => AsyncStorage' = AsyncStorage
       /\ Answers("list") => AsyncStorage' = AsyncStorage
       /\ Answers("cleared")
            => /\ RecentJson(AsyncStorage') = RecentJson(AsyncStorage)
               /\ got'.keysOk => \A key \in got'.cleared : AsyncStorage'[key] = Null
       /\ (puts' = puts + 1 /\ \A url \in Urls : stamp'[url].stored # puts')
            => AsyncStorage' = AsyncStorage]_vars

\* clearAllCache removed the entries and the list of both urls is still there
C28_Witness ==
    /\ got # Null
    /\ "cleared" \in DOMAIN got
    /\ Cardinality(got.cleared) = Cardinality(Urls)
    /\ Len(Recent) = Cardinality(Urls)
    /\ \A u \in Urls : EntryOf(AsyncStorage, u) = Null

\* the cache holds for the url an entry no older than the TTL
YoungEntry(url) ==
    /\ EntryOf(AsyncStorage, url) # Null
    /\ now - EntryOf(AsyncStorage, url).timestamp <= CACHE_TTL

\* C26 as stated: a product text submitted in text mode gives a request for
\* the search url made of the text, and a run of queryFn for such a request
\* consults the cache before it calls the backend: it returns the entry the
\* cache holds for the url when that is no older than the TTL.
C26_SynthesizedThroughCache ==
    [][/\ (pc = "idle" /\ pc' = "queryFn" /\ input.searchMode = "text")
            => params' = [url |-> SearchUrl(input.productText),
                          shareText |-> Concat(input.productText)]
       /\ (pc = "queryFn" /\ params.url \in SearchUrls /\ YoungEntry(params.url)
                /\ QueryFn(TRUE))
            => /\ pc' = "done"
               /\ outcome' = [status |-> "data", data |-> EntryOf(AsyncStorage, params.url).data]
               /\ primaryCalls' = 0]_vars

\* C27 as stated: what a run of queryFn returns from the cache was stored by
\* a request with the same url and the same share text.
C27_KeyedByUrlAndText ==
    [][(pc = "queryFn" /\ QueryFn(TRUE) /\ outcome'.status = "data")
            => cachedFor[params.url] = params.shareText]_vars

\* the name of a marketplace in lower case, as currentPlatform has it
LowerCase ==
    [Flipkart |-> "flipkart", Amazon |-> "amazon", Meesho |-> "meesho",
     Snapdeal |-> "snapdeal", JioMart |-> "jiomart", Blinkit |-> "blinkit",
     Instamart |-> "instamart", Zepto |-> "zepto"]
FallbackOfProps ==
    getFallbackSearchLinks(props.productName, props.productBrand, props.currentPlatform)
FailureKinds == {o.kind : o \in {f \in SearchOutcomes : SearchFailed(f)}}
\* a call of searchOtherPlatforms ends in this step
SearchEnded == searching' = searching - 1

C22_OnePerOtherMarketplace ==
    \A i \in 1..Len(made) :
        LET links == made[i]
        IN  /\ \A j \in 1..Len(links) :
                /\ links[j].platform \in Marketplaces
                /\ LowerCase[links[j].platform] # props.currentPlatform
            /\ \A m \in Marketplaces :
                LowerCase[m] # props.currentPlatform
                    => Cardinality({j \in 1..Len(links) : links[j].platform = m}) = 1
\* a fallback list was made for a product from Flipkart: seven links
C22_Witness ==
    /\ props.currentPlatform = "flipkart"
    /\ Len(made) > 0
    /\ Len(made[1]) = Cardinality(Marketplaces) - 1

\* C23: every link of a fallback list is available, has no price, and is
\* shown as a search link: not as a direct link, and not without a badge
C23_FallbackLinksAreSearch ==
    \A i \in 1..Len(made) : \A j \in 1..Len(made[i]) :
        /\ made[i][j].available
        /\ ~hasPrice(made[i][j])
        /\ Badge(made[i][j]) = "SEARCH"

\* C24: a call of searchOtherPlatforms that ends in a failure (timeout, network
\* error, non-2xx status, a body that cannot be read) sets the sellers to the
\* fallback list and clears loading, and the component shows its button or
\* the list; a fallback list is made in no other step
C24_FailureEndsInFallback ==
    [][/\ (SearchEnded /\ answered' \in FailureKinds) =>
            /\ sellers' = FallbackOfProps
            /\ sellers' # <<>>
            /\ ~loading'
            /\ View' \in {"button", "list"}
            /\ made' = Append(made, FallbackOfProps)
       /\ made' # made => (SearchEnded /\ answered' \in FailureKinds)]_vars
\* the call timed out while the component was expanded: the fallback list is shown
C24_Witness ==
    /\ answered = "timeout"
    /\ View = "list"
    /\ made = <<sellers>>
    /\ searching = 0

\* C25: a call of searchOtherPlatforms that the backend answers with no
\* sellers leaves the list empty and clears loading, makes no fallback list,
\* and the expanded component says the product is exclusive
C25_NoSellersIsNoFailure ==
    [][\A o \in SearchOutcomes :
          (searching > 0 /\ o.kind = "ok" /\ o.sellers = <<>> /\ SearchEnds(o)) =>
              /\ sellers' = <<>>
              /\ made' = made
              /\ ~loading'
              /\ expanded' => View' = "exclusive"]_vars
\* the backend answered with no sellers: the expanded component says exclusive
C25_Witness ==
    /\ answered = "ok"
    /\ sellers = <<>>
    /\ made = <<>>
    /\ searching = 0
    /\ View = "exclusive"

====
